---- MODULE Spec2Model ----
(***************************************************************************)
(* A model of the Open Geodata Browser QGIS plugin: the settings-backed    *)
(* connection store (core/connection_manager.py), the STAC client wrapper  *)
(* (core/custom_stac_client.py), the Open-Geodata-API helpers              *)
(* (core/client_manager.py, core/search_handler.py, core/asset_manager.py) *)
(* and the browser dialog (geodata_browser_dialog.py, geodata_browser.py). *)
(*                                                                         *)
(* Python values that travel through json.dumps / json.loads are modelled  *)
(* as tagged records (JStr, JBool, JNum, JNull, JDict, JList); a text is a *)
(* sequence of tokens, json.dumps writes tokens and json.loads is a        *)
(* recursive-descent parser over them.                                     *)
(***************************************************************************)
EXTENDS Integers, Sequences, FiniteSets, TLC

VARIABLES
    settings,       \* QSettings: the value held under SETTINGS_KEY
    manager,        \* TRUE once a ConnectionManager has been constructed
    last,           \* the last ConnectionManager call and its outcome
    am_call,        \* AssetManager.download_assets: the call's keys and what each met
    am_result,      \* AssetManager.download_assets: the (downloaded, failed) returned
    pystac_available,   \* custom_stac_client.PYSTAC_AVAILABLE, set at import
    clients,        \* ClientManager: clients_initialized, pc_client, es_client
    coll_last,      \* the last collection-listing call and its outcome
    batch,          \* the last run of load_selected_assets / _download_assets
    dlg,            \* the plugin's dialog object (GeodataBrowser.dlg)
    stac_call,      \* the search_items call made by the handler that ran last
    project,        \* the layers of QgsProject.instance(), in the order they were added
    load_last,      \* the last load_cog_layer call and its outcome
    search_last,    \* the last search_items call: its arguments, what client.search got
    importable,     \* what __import__ does for each package of the plugin
    dep_last,       \* the last DependencyChecker call and its outcome
    providerCombo,  \* the items of the provider dropdown of the browser dialog
    conn_dlg,       \* the ConnectionDialog opened by manage_connections
    plugin          \* what `import open_geodata_api` does now, and the last run() call

storeVars == <<settings, manager, last>>
amVars    == <<am_call, am_result>>
collVars  == <<pystac_available, clients, coll_last>>
searchVars == <<dlg, stac_call>>
layerVars == <<project, load_last>>
depVars   == <<importable, dep_last>>
manageVars == <<providerCombo, conn_dlg>>
vars      == <<storeVars, amVars, collVars, batch, searchVars, layerVars, search_last, depVars,
               manageVars, plugin>>

----------------------------------------------------------------------------
(* Python / JSON values *)

JStr(x)  == [kind |-> "str",  s |-> x,  b |-> FALSE, n |-> 0, items |-> <<>>]
JBool(x) == [kind |-> "bool", s |-> "", b |-> x,     n |-> 0, items |-> <<>>]
JNum(x)  == [kind |-> "num",  s |-> "", b |-> FALSE, n |-> x, items |-> <<>>]
JNull    == [kind |-> "null", s |-> "", b |-> FALSE, n |-> 0, items |-> <<>>]
\* a dict keeps its insertion order: items is a sequence of [k, v] entries
JDict(entries) == [kind |-> "dict", s |-> "", b |-> FALSE, n |-> 0, items |-> entries]
\* a list: the entries' keys are unused ("")
JList(entries) == [kind |-> "list", s |-> "", b |-> FALSE, n |-> 0, items |-> entries]
Entry(key, val) == [k |-> key, v |-> val]

\* Python truthiness (`not existing`)
Truthy(v) ==
    CASE v.kind = "str"  -> v.s # ""
      [] v.kind = "bool" -> v.b
      [] v.kind = "num"  -> v.n # 0
      [] v.kind = "null" -> FALSE
      [] OTHER           -> v.items # <<>>

\* the keys of a dict, in order (dict.keys())
Keys(d) == [i \in 1..Len(d.items) |-> d.items[i].k]
HasKey(d, key) == \E i \in 1..Len(d.items) : d.items[i].k = key
IndexOf(d, key) == CHOOSE i \in 1..Len(d.items) : d.items[i].k = key
\* dict.get(key, default)
DictGet(d, key, default) == IF HasKey(d, key) THEN d.items[IndexOf(d, key)].v ELSE default
\* d[key] = val: an existing key keeps its place, a new key goes last
DictSet(d, key, val) ==
    IF HasKey(d, key)
    THEN JDict([d.items EXCEPT ![IndexOf(d, key)] = Entry(key, val)])
    ELSE JDict(Append(d.items, Entry(key, val)))
\* del d[key]
DictDel(d, key) ==
    JDict(SelectSeq(d.items, LAMBDA e : e.k # key))

----------------------------------------------------------------------------
(* json.dumps and json.loads over token sequences *)

Tok(type)    == [t |-> type,  s |-> "", n |-> 0]
TokStr(x)    == [t |-> "str", s |-> x,  n |-> 0]
TokNum(x)    == [t |-> "num", s |-> "", n |-> x]

RECURSIVE DumpsValue(_)
RECURSIVE DumpsItems(_, _, _)
DumpsItems(items, i, asDict) ==
    IF i > Len(items) THEN <<>>
    ELSE (IF i > 1 THEN <<Tok(",")>> ELSE <<>>)
         \o (IF asDict THEN <<TokStr(items[i].k), Tok(":")>> ELSE <<>>)
         \o DumpsValue(items[i].v)
         \o DumpsItems(items, i + 1, asDict)
DumpsValue(v) ==
    CASE v.kind = "str"  -> <<TokStr(v.s)>>
      [] v.kind = "bool" -> <<Tok(IF v.b THEN "true" ELSE "false")>>
      [] v.kind = "num"  -> <<TokNum(v.n)>>
      [] v.kind = "null" -> <<Tok("null")>>
      [] v.kind = "dict" -> <<Tok("{")>> \o DumpsItems(v.items, 1, TRUE) \o <<Tok("}")>>
      [] OTHER           -> <<Tok("[")>> \o DumpsItems(v.items, 1, FALSE) \o <<Tok("]")>>
json_dumps(v) == DumpsValue(v)

ParseFail == [ok |-> FALSE, v |-> JNull, next |-> 0]
ParseOk(val, nxt) == [ok |-> TRUE, v |-> val, next |-> nxt]
TokAt(toks, i) == IF i <= Len(toks) THEN toks[i] ELSE Tok("eof")

RECURSIVE ParseValue(_, _)
RECURSIVE ParseMembers(_, _, _)
RECURSIVE ParseElements(_, _, _)
\* a member whose value parsed as r: then "," or "}"
MemberParsed(toks, i, acc, r) ==
    IF ~r.ok THEN ParseFail
    ELSE CASE TokAt(toks, r.next).t = "," ->
                 ParseMembers(toks, r.next + 1, DictSet(acc, toks[i].s, r.v))
           [] TokAt(toks, r.next).t = "}" ->
                 ParseOk(DictSet(acc, toks[i].s, r.v), r.next + 1)
           [] OTHER -> ParseFail
\* after "{" or a ",": "key" : value, then "," or "}"
ParseMembers(toks, i, acc) ==
    IF TokAt(toks, i).t # "str" \/ TokAt(toks, i + 1).t # ":" THEN ParseFail
    ELSE MemberParsed(toks, i, acc, ParseValue(toks, i + 2))
\* an element that parsed as r: then "," or "]"
ElementParsed(toks, acc, r) ==
    IF ~r.ok THEN ParseFail
    ELSE CASE TokAt(toks, r.next).t = "," ->
                 ParseElements(toks, r.next + 1, JList(Append(acc.items, Entry("", r.v))))
           [] TokAt(toks, r.next).t = "]" ->
                 ParseOk(JList(Append(acc.items, Entry("", r.v))), r.next + 1)
           [] OTHER -> ParseFail
ParseElements(toks, i, acc) == ElementParsed(toks, acc, ParseValue(toks, i))
ValueAt(toks, i, tk) ==
    CASE tk.t = "str"   -> ParseOk(JStr(tk.s), i + 1)
      [] tk.t = "num"   -> ParseOk(JNum(tk.n), i + 1)
      [] tk.t = "true"  -> ParseOk(JBool(TRUE), i + 1)
      [] tk.t = "false" -> ParseOk(JBool(FALSE), i + 1)
      [] tk.t = "null"  -> ParseOk(JNull, i + 1)
      [] tk.t = "{"     -> IF TokAt(toks, i + 1).t = "}"
                           THEN ParseOk(JDict(<<>>), i + 2)
                           ELSE ParseMembers(toks, i + 1, JDict(<<>>))
      [] tk.t = "["     -> IF TokAt(toks, i + 1).t = "]"
                           THEN ParseOk(JList(<<>>), i + 2)
                           ELSE ParseElements(toks, i + 1, JList(<<>>))
      [] OTHER          -> ParseFail
ParseValue(toks, i) == ValueAt(toks, i, TokAt(toks, i))
\* json.loads: [ok |-> FALSE] stands for JSONDecodeError (also on trailing data)
LoadsResult(toks, r) ==
    IF r.ok /\ r.next = Len(toks) + 1 THEN [ok |-> TRUE, v |-> r.v]
    ELSE [ok |-> FALSE, v |-> JNull]
json_loads(toks) == LoadsResult(toks, ParseValue(toks, 1))

----------------------------------------------------------------------------
(* QSettings: the value held under 'OpenGeodataBrowser/connections' *)

SettingsAbsent    == [present |-> FALSE, isText |-> TRUE,  text |-> <<>>, native |-> JNull]
SettingsText(t)   == [present |-> TRUE,  isText |-> TRUE,  text |-> t,    native |-> JNull]
\* a value QSettings hands back as something other than a str
SettingsNative(v) == [present |-> TRUE,  isText |-> FALSE, text |-> <<>>, native |-> v]
\* QSettings.value(key, default)
settings_value(st, default) == IF st.present THEN st ELSE SettingsText(default)

\* the outcome of a call: it returned ret, or raised exc; st is the store afterwards
Return(st, val) == [raised |-> FALSE, exc |-> "",  settings |-> st, ret |-> val]
Raise(st, e)    == [raised |-> TRUE,  exc |-> e,   settings |-> st, ret |-> JNull]

\* last: the call, whether it raised, whether it logged the parse warning, and
\* whether it directly follows a save_connection of the same name that returned
NoCall == [op |-> "none", name |-> "", config |-> JNull, raised |-> FALSE,
           exc |-> "", warned |-> FALSE, afterSave |-> FALSE]

----------------------------------------------------------------------------
(* Each component at rest: what its variables hold before its first call *)

StoreIdle ==
    /\ settings = SettingsAbsent
    /\ manager = FALSE
    /\ last = NoCall

AmIdle ==
    /\ am_call = [keys |-> <<>>, outcomes |-> <<>>, made |-> FALSE]
    /\ am_result = [downloaded |-> <<>>, failed |-> <<>>]

\* what a catalog does when asked for its collections: it raises, or yields ids
Listing(fails, ids) == [raises |-> fails, ids |-> ids]

\* ClientManager(): no clients yet; succeeded records whether an initialize_clients
\* call has run to its end so far
NoClients == [initialized |-> FALSE, pc |-> "none", es |-> "none", succeeded |-> FALSE]

NoListing == [op |-> "none", available |-> TRUE, connection |-> JNull,
              open_raises |-> FALSE, provider |-> "", initialized |-> FALSE,
              listing |-> Listing(FALSE, <<>>), raised |-> FALSE, exc |-> "", ret |-> <<>>,
              client |-> "none", succeeded |-> FALSE]

CollIdle ==
    /\ pystac_available = TRUE
    /\ clients = NoClients
    /\ coll_last = NoListing

\* a message box: its kind, its text, and the k/N of a tally
Message(kind, text, k, n) == [kind |-> kind, text |-> text, k |-> k, n |-> n]
NoMessage == Message("none", "", 0, 0)

\* item_selected and path_exists are what the handler found in self.selected_item
\* and at the download path (path_exists stays FALSE for load_selected_assets)
NoBatch == [handler |-> "none", selected |-> <<>>, outcomes |-> <<>>, cancel_during |-> 0,
            looped |-> FALSE, processed |-> 0, seenAt |-> 0, count |-> 0,
            effects |-> <<>>, message |-> NoMessage,
            item_selected |-> FALSE, path_exists |-> FALSE]

BatchIdle == batch = NoBatch

\* the four bbox line edits; a text is a sequence of characters
BBox(west, south, east, north) ==
    [west |-> west, south |-> south, east |-> east, north |-> north]
EmptyBBox == BBox(<<>>, <<>>, <<>>, <<>>)

\* the status label: its text and the count it mentions
Status(text, n) == [text |-> text, n |-> n]

\* self.dlg is None
NoDialog == [exists |-> FALSE, visible |-> FALSE, provider |-> "", collections |-> <<>>,
             bbox |-> EmptyBBox, show_map |-> FALSE,
             current_items |-> <<>>, table |-> <<>>, rubber_bands |-> 0,
             status |-> Status("", 0), searchEnabled |-> TRUE,
             message |-> NoMessage, op |-> "none", raised |-> FALSE]

\* no search_items call
NoRequest == [called |-> FALSE, sent |-> FALSE, connection |-> JNull, collections |-> <<>>,
              bbox |-> <<>>, cloud_cover |-> 0, query_lt |-> -1, stage |-> "none",
              logged |-> FALSE, raised |-> FALSE, exc |-> "", items |-> <<>>]

SearchIdle == dlg = NoDialog /\ stac_call = NoRequest

\* a raster layer: its data source and its name
Layer(source, name) == [source |-> source, name |-> name]
NoLayer == Layer("", "")

NoLoad == [op |-> "none", item |-> [id |-> "", has_assets |-> FALSE, assets |-> JDict(<<>>)],
           asset_key |-> "", layer_name |-> "", valid |-> FALSE,
           raised |-> FALSE, exc |-> "", ret |-> NoLayer]

LayerIdle == project = <<>> /\ load_last = NoLoad

\* the keyword arguments of client.search(...)
SearchKwargs(collections, bbox, datetime, query, limit) ==
    [collections |-> collections, bbox |-> bbox, datetime |-> datetime, query |-> query,
     limit |-> limit]
NoSearch == [op |-> "none", target |-> JNull, initialized |-> FALSE,
             args |-> SearchKwargs(JNull, JNull, JNull, JNull, JNull),
             sent |-> FALSE, kwargs |-> SearchKwargs(JNull, JNull, JNull, JNull, JNull),
             logged |-> FALSE, raised |-> FALSE, exc |-> "", items |-> <<>>]

RequestIdle == search_last = NoSearch

\* the packages the plugin imports, in the order of REQUIRED_PACKAGES and
\* OPTIONAL_PACKAGES
Packages == <<"open_geodata_api", "geopandas", "rioxarray">>
NoCheck == [op |-> "none", package |-> "", raised |-> FALSE, exc |-> "",
            all_required_met |-> FALSE, required |-> <<>>, optional |-> <<>>,
            ret |-> ""]

DepIdle ==
    /\ importable = [i \in 1..Len(Packages) |-> "ok"]
    /\ dep_last = NoCheck

\* the fields of AddConnectionDialog; a text is a sequence of pieces, each a blank
\* or a run of characters without blanks
Form(name, url, username, password, auto_sign) ==
    [name |-> name, url |-> url, username |-> username, password |-> password,
     auto_sign |-> auto_sign]
EmptyForm == Form(<<>>, <<>>, <<>>, <<>>, FALSE)

\* no ConnectionDialog yet; result is what exec_() returned, form and accepted
\* are those of the AddConnectionDialog the last handler opened
NoConnectionDialog ==
    [open |-> FALSE, connectionsList |-> <<>>, currentRow |-> 0, message |-> NoMessage,
     op |-> "none", name |-> "", new_name |-> "", form |-> EmptyForm, accepted |-> FALSE,
     raised |-> FALSE, result |-> 0]

ManageIdle == providerCombo = <<>> /\ conn_dlg = NoConnectionDialog

\* the package can be imported and run() has not been called; tick changes with
\* every run() call
NoRun == [package |-> "ok", tick |-> FALSE, importable |-> TRUE, clicked |-> "",
          pip |-> "", message |-> NoMessage, raised |-> FALSE]

PluginIdle == plugin = NoRun

----------------------------------------------------------------------------
(* core/connection_manager.py *)

PC_NAME  == "Planetary Computer"
AWS_NAME == "AWS EarthSearch"
PC_URL   == "https://planetarycomputer.microsoft.com/api/stac/v1"
AWS_URL  == "https://earth-search.aws.element84.com/v1"

ProfileRecord(url, username, password, auto_sign) ==
    JDict(<< Entry("url", url), Entry("username", username),
             Entry("password", password), Entry("auto_sign", auto_sign) >>)

DEFAULT_CONNECTIONS ==
    JDict(<< Entry(PC_NAME,  ProfileRecord(JStr(PC_URL),  JStr(""), JStr(""), JBool(TRUE))),
             Entry(AWS_NAME, ProfileRecord(JStr(AWS_URL), JStr(""), JStr(""), JBool(FALSE))) >>)

\* (variant) a text that does not parse is not replaced by {}: None comes back
get_all_connections_NoFallback(st) ==
    LET connections_json == settings_value(st, <<Tok("{"), Tok("}")>>) IN
    IF connections_json.isText
    THEN IF connections_json.text # <<>>
         THEN json_loads(connections_json.text).v
         ELSE JDict(<<>>)
    ELSE connections_json.native

\* the text is parsed unless it is empty; a text that does not parse gives {}
\* (JSONDecodeError is caught and logged); any other value is handed back as is
LoadedOrEmpty(r) == IF r.ok THEN r.v ELSE JDict(<<>>)
ConnectionsIn(connections_json) ==
    IF connections_json.isText
    THEN IF connections_json.text # <<>>
         THEN LoadedOrEmpty(json_loads(connections_json.text))
         ELSE JDict(<<>>)
    ELSE connections_json.native
get_all_connections(st) == ConnectionsIn(settings_value(st, <<Tok("{"), Tok("}")>>))

\* TRUE when get_all_connections logs 'Failed to parse connections settings'
ParseWarningLogged(st) ==
    LET connections_json == settings_value(st, <<Tok("{"), Tok("}")>>) IN
    connections_json.isText /\ connections_json.text # <<>>
        /\ ~json_loads(connections_json.text).ok

\* connections.get(name): only a dict has .get
GetFrom(st, connections, name) ==
    IF connections.kind = "dict"
    THEN Return(st, DictGet(connections, name, JNull))
    ELSE Raise(st, "AttributeError")
get_connection(st, name) == GetFrom(st, get_all_connections(st), name)

\* (variant) auto_sign defaults to True
StoredRecord_AutoSignOn(config) ==
    ProfileRecord(DictGet(config, "url", JStr("")),
                  DictGet(config, "username", JStr("")),
                  DictGet(config, "password", JStr("")),
                  DictGet(config, "auto_sign", JBool(TRUE)))

\* (variant) the config is stored as it came
StoredRecord_KeepConfig(config) == config

\* the record save_connection stores for config
StoredRecord(config) ==
    ProfileRecord(DictGet(config, "url", JStr("")),
                  DictGet(config, "username", JStr("")),
                  DictGet(config, "password", JStr("")),
                  DictGet(config, "auto_sign", JBool(FALSE)))

\* connections[name] = {...} needs a dict: TypeError on a list, number, None, str
SaveInto(st, connections, name, config) ==
    IF connections.kind = "dict"
    THEN Return(SettingsText(json_dumps(DictSet(connections, name, StoredRecord(config)))), JNull)
    ELSE Raise(st, "TypeError")
save_connection(st, name, config) == SaveInto(st, get_all_connections(st), name, config)

\* `name in connections`: a key of a dict, an element of a list, a substring of a
\* str (the strings of this model are a name itself or empty); TypeError otherwise
NameIn(connections, name) ==
    CASE connections.kind = "dict" -> HasKey(connections, name)
      [] connections.kind = "list" ->
            \E i \in 1..Len(connections.items) : connections.items[i].v = JStr(name)
      [] OTHER -> name = connections.s \/ name = ""

DeleteFrom(st, connections, name) ==
    IF connections.kind \in {"num", "bool", "null"} THEN Raise(st, "TypeError")
    ELSE IF ~NameIn(connections, name) THEN Return(st, JNull)
    ELSE IF connections.kind = "dict"
         THEN Return(SettingsText(json_dumps(DictDel(connections, name))), JNull)
         ELSE Raise(st, "TypeError")
delete_connection(st, name) == DeleteFrom(st, get_all_connections(st), name)

\* list(connections.keys())
KeysOf(st, connections) ==
    IF connections.kind = "dict"
    THEN Return(st, JList([i \in 1..Len(connections.items) |->
                              Entry("", JStr(connections.items[i].k))]))
    ELSE Raise(st, "AttributeError")
get_connection_names(st) == KeysOf(st, get_all_connections(st))

\* for name, config in DEFAULT_CONNECTIONS.items(): save_connection(name, config);
\* the first call that raises ends the loop
RECURSIVE SaveDefaults(_, _)
SaveDefaults(st, i) ==
    IF i > Len(DEFAULT_CONNECTIONS.items) THEN Return(st, JNull)
    ELSE LET o == save_connection(st, DEFAULT_CONNECTIONS.items[i].k,
                                  DEFAULT_CONNECTIONS.items[i].v) IN
         IF o.raised THEN o ELSE SaveDefaults(o.settings, i + 1)

ensure_defaults(st) ==
    LET existing == get_all_connections(st) IN
    IF ~Truthy(existing) THEN SaveDefaults(st, 1) ELSE Return(st, JNull)

\* ConnectionManager(): QSettings(), then _ensure_defaults()
ConnectionManager_init(st) == ensure_defaults(st)

----------------------------------------------------------------------------
(* core/asset_manager.py *)

\* the longest asset_keys list and the number of distinct keys drawn from AssetKeyPool
MaxAssetKeys == 3
NumAssetKeys == 2
AssetKeyPool == <<"B04", "visual", "B08", "thumbnail">>
AssetKeys    == {AssetKeyPool[i] : i \in 1..NumAssetKeys}

\* what one key meets: item.get_asset_url raises, download_single_file raises, or neither
Outcomes == {"ok", "url_raises", "download_raises"}

\* (variant) the first failure ends the loop
RECURSIVE DownloadLoop_StopAtFailure(_, _, _, _, _)
DownloadLoop_StopAtFailure(asset_keys, outcomes, i, downloaded, failed) ==
    IF i > Len(asset_keys) THEN [downloaded |-> downloaded, failed |-> failed]
    ELSE IF outcomes[i] = "ok"
         THEN DownloadLoop_StopAtFailure(asset_keys, outcomes, i + 1,
                                         Append(downloaded, asset_keys[i]), failed)
         ELSE [downloaded |-> downloaded, failed |-> Append(failed, asset_keys[i])]

\* for asset_key in asset_keys: try ... downloaded.append / except ... failed.append
RECURSIVE DownloadLoop(_, _, _, _, _)
DownloadLoop(asset_keys, outcomes, i, downloaded, failed) ==
    IF i > Len(asset_keys) THEN [downloaded |-> downloaded, failed |-> failed]
    ELSE IF outcomes[i] = "ok"
         THEN DownloadLoop(asset_keys, outcomes, i + 1, Append(downloaded, asset_keys[i]), failed)
         ELSE DownloadLoop(asset_keys, outcomes, i + 1, downloaded, Append(failed, asset_keys[i]))

download_assets(asset_keys, outcomes) == DownloadLoop(asset_keys, outcomes, 1, <<>>, <<>>)

AssetKeyLists == UNION {[1..n -> AssetKeys] : n \in 0..MaxAssetKeys}

\* one call of download_assets: any list of keys, any outcome for each position
DownloadAssets(asset_keys, outcomes) ==
    /\ ~am_call.made
    /\ am_call' = [keys |-> asset_keys, outcomes |-> outcomes, made |-> TRUE]
    /\ am_result' = download_assets(asset_keys, outcomes)
    /\ UNCHANGED <<storeVars, collVars, batch, searchVars, layerVars, search_last, depVars, manageVars, plugin>>

AmInit == StoreIdle /\ AmIdle /\ CollIdle /\ BatchIdle /\ SearchIdle /\ LayerIdle /\ RequestIdle /\ DepIdle /\ ManageIdle /\ PluginIdle

AmNext ==
    \E asset_keys \in AssetKeyLists :
        \E outcomes \in [1..Len(asset_keys) -> Outcomes] :
            DownloadAssets(asset_keys, outcomes)

SpecAssets == AmInit /\ [][AmNext]_vars

----------------------------------------------------------------------------
(* core/custom_stac_client.py, core/client_manager.py, core/search_handler.py:
   listing collections *)

\* the longest listing a catalog yields and the number of distinct collection ids
MaxCollections   == 2
NumCollectionIds == 2
CollectionPool == <<"sentinel-2-l2a", "landsat-c2-l2", "naip", "cop-dem-glo-30">>
CollectionIds  == {CollectionPool[i] : i \in 1..NumCollectionIds}

Listings ==
    {Listing(TRUE, <<>>)} \cup
    {Listing(FALSE, ids) : ids \in UNION {[1..n -> CollectionIds] : n \in 0..MaxCollections}}

\* the outcome of a call that returns a list of ids
Ok(ids)  == [raised |-> FALSE, exc |-> "", ret |-> ids]
Err(e)   == [raised |-> TRUE,  exc |-> e,  ret |-> <<>>]
ExceptionTypes == {"ImportError", "KeyError", "TypeError", "RuntimeError", "ValueError",
                   "APIError"}

\* _get_client: ImportError without pystac-client; connection['url'] needs a
\* mapping that has the key; Client.open may raise
get_client_for(available, connection, open_raises) ==
    IF ~available THEN Err("ImportError")
    ELSE IF connection.kind # "dict" THEN Err("TypeError")
    ELSE IF ~HasKey(connection, "url") THEN Err("KeyError")
    ELSE IF open_raises THEN Err("APIError")
    ELSE Ok(<<>>)

\* the try body of list_collections
ListCollectionsBody(available, connection, open_raises, listing) ==
    LET c == get_client_for(available, connection, open_raises) IN
    IF c.raised THEN c
    ELSE IF listing.raises THEN Err("APIError")
    ELSE Ok(listing.ids)

\* (variant) the handler logs and re-raises, as search_items does
list_collections_Reraise(available, connection, open_raises, listing) ==
    ListCollectionsBody(available, connection, open_raises, listing)

\* try: ... except Exception: log, return []
list_collections(available, connection, open_raises, listing) ==
    LET o == ListCollectionsBody(available, connection, open_raises, listing) IN
    IF o.raised /\ o.exc \in ExceptionTypes THEN Ok(<<>>) ELSE o

\* what ogapi.get_clients does: it raises, or it returns a mapping that lacks one of
\* the two keys, or one that has both
GetClientsOutcomes == {"raises", "no_planetary_computer", "no_earth_search", "ok"}

\* (variant) clients_initialized is set as soon as get_clients has returned
initialize_clients_FlagFirst(cl, outcome) ==
    IF outcome = "raises" THEN cl
    ELSE IF outcome = "no_planetary_computer" THEN [cl EXCEPT !.initialized = TRUE]
    ELSE IF outcome = "no_earth_search" THEN [cl EXCEPT !.initialized = TRUE, !.pc = "pc_client"]
    ELSE [cl EXCEPT !.initialized = TRUE, !.pc = "pc_client", !.es = "es_client"]

\* ClientManager.initialize_clients: pc_client, es_client and the flag are assigned
\* in this order; an exception on the way is logged and False is returned
initialize_clients(cl, outcome) ==
    IF outcome \in {"raises", "no_planetary_computer"} THEN cl
    ELSE IF outcome = "no_earth_search" THEN [cl EXCEPT !.pc = "pc_client"]
    ELSE [cl EXCEPT !.initialized = TRUE, !.pc = "pc_client", !.es = "es_client"]

\* ClientManager.get_client
get_client(cl, provider) ==
    IF ~cl.initialized THEN [raised |-> TRUE, exc |-> "RuntimeError", client |-> "none"]
    ELSE IF provider = "planetary_computer" THEN [raised |-> FALSE, exc |-> "", client |-> cl.pc]
    ELSE IF provider = "earth_search" THEN [raised |-> FALSE, exc |-> "", client |-> cl.es]
    ELSE [raised |-> TRUE, exc |-> "ValueError", client |-> "none"]

\* the try body of SearchHandler.get_collections
GetCollectionsBody(cl, provider, listing) ==
    LET c == get_client(cl, provider) IN
    IF c.raised THEN Err(c.exc)
    ELSE IF listing.raises THEN Err("APIError")
    ELSE Ok(listing.ids)

\* try: ... except Exception: log, return []
get_collections(cl, provider, listing) ==
    LET o == GetCollectionsBody(cl, provider, listing) IN
    IF o.raised /\ o.exc \in ExceptionTypes THEN Ok(<<>>) ELSE o

Providers == {"planetary_computer", "earth_search", "usgs"}

\* the connection argument: a stored profile, a mapping without 'url', or None
ConnectionArgs ==
    { DEFAULT_CONNECTIONS.items[1].v,
      JDict(<<Entry("username", JStr("user"))>>),
      JNull }

ListCollections(connection, open_raises, listing) ==
    /\ \E o \in {list_collections(pystac_available, connection, open_raises, listing)} :
          coll_last' = [op |-> "list_collections", available |-> pystac_available,
                        connection |-> connection, open_raises |-> open_raises,
                        provider |-> "", initialized |-> clients.initialized,
                        listing |-> listing,
                        raised |-> o.raised, exc |-> o.exc, ret |-> o.ret,
                        client |-> "none", succeeded |-> clients.succeeded]
    /\ UNCHANGED <<pystac_available, clients, storeVars, amVars, batch, searchVars, layerVars, search_last, depVars, manageVars, plugin>>

InitializeClients(outcome) ==
    /\ clients' = [initialize_clients(clients, outcome) EXCEPT
                      !.succeeded = (@ \/ outcome = "ok")]
    /\ coll_last' = [NoListing EXCEPT !.op = "initialize_clients",
                                      !.raised = FALSE,
                                      !.initialized = clients'.initialized,
                                      !.succeeded = clients'.succeeded]
    /\ UNCHANGED <<pystac_available, storeVars, amVars, batch, searchVars, layerVars, search_last, depVars, manageVars, plugin>>

GetClient(provider) ==
    /\ \E o \in {get_client(clients, provider)} :
          coll_last' = [NoListing EXCEPT !.op = "get_client", !.provider = provider,
                                        !.initialized = clients.initialized,
                                        !.succeeded = clients.succeeded,
                                        !.raised = o.raised, !.exc = o.exc,
                                        !.client = o.client]
    /\ UNCHANGED <<pystac_available, clients, storeVars, amVars, batch, searchVars, layerVars, search_last, depVars, manageVars, plugin>>

GetCollections(provider, listing) ==
    /\ \E o \in {get_collections(clients, provider, listing)} :
          coll_last' = [op |-> "get_collections", available |-> pystac_available,
                        connection |-> JNull, open_raises |-> FALSE,
                        provider |-> provider, initialized |-> clients.initialized,
                        listing |-> listing,
                        raised |-> o.raised, exc |-> o.exc, ret |-> o.ret,
                        client |-> "none", succeeded |-> clients.succeeded]
    /\ UNCHANGED <<pystac_available, clients, storeVars, amVars, batch, searchVars, layerVars, search_last, depVars, manageVars, plugin>>

CollInit ==
    /\ StoreIdle
    /\ AmIdle
    /\ BatchIdle /\ SearchIdle /\ LayerIdle /\ RequestIdle /\ DepIdle /\ ManageIdle /\ PluginIdle
    /\ pystac_available \in BOOLEAN
    /\ clients = NoClients
    /\ coll_last = NoListing

CollNext ==
    \/ \E connection \in ConnectionArgs : \E open_raises \in BOOLEAN :
          \E listing \in Listings : ListCollections(connection, open_raises, listing)
    \/ \E outcome \in GetClientsOutcomes : InitializeClients(outcome)
    \/ \E provider \in Providers : GetClient(provider)
    \/ \E provider \in Providers : \E listing \in Listings : GetCollections(provider, listing)

SpecCollections == CollInit /\ [][CollNext]_vars

----------------------------------------------------------------------------
(* geodata_browser_dialog.py: load_selected_assets and _download_assets *)

\* the number of assets of the selected item
MaxSelected == 3
ItemAssets  == [i \in 1..MaxSelected |-> AssetKeyPool[i]]

\* get_selected_assets: the rows that are shown and checked, in table order
RECURSIVE CheckedRows(_, _, _)
CheckedRows(assets, checked, i) ==
    IF i > Len(assets) THEN <<>>
    ELSE (IF checked[i] THEN <<assets[i]>> ELSE <<>>) \o CheckedRows(assets, checked, i + 1)
SelectedAssetLists == {CheckedRows(ItemAssets, checked, 1) : checked \in [1..MaxSelected -> BOOLEAN]}

\* the state of the for loop: the position reached, the progress dialog's flag, the
\* position at which the flag was seen set (0: never), the counter and the assets
\* loaded or written so far
LoopState(i, canceled, seenAt, count, effects) ==
    [i |-> i, canceled |-> canceled, seenAt |-> seenAt, count |-> count, effects |-> effects]

\* (variant) the flag is never looked at
RECURSIVE BatchLoop_IgnoreCancel(_, _, _, _)
BatchLoop_IgnoreCancel(selected, outcomes, cancel_during, st) ==
    IF st.i > Len(selected) THEN st
    ELSE BatchLoop_IgnoreCancel(selected, outcomes, cancel_during,
            IF outcomes[st.i] = "ok"
            THEN LoopState(st.i + 1, cancel_during = st.i, 0, st.count + 1,
                           Append(st.effects, selected[st.i]))
            ELSE LoopState(st.i + 1, cancel_during = st.i, 0, st.count, st.effects))

\* (variant) the first asset that fails ends the loop
RECURSIVE BatchLoop_StopAtFailure(_, _, _, _)
BatchLoop_StopAtFailure(selected, outcomes, cancel_during, st) ==
    IF st.i > Len(selected) THEN st
    ELSE IF st.canceled THEN [st EXCEPT !.seenAt = st.i]
    ELSE IF outcomes[st.i] # "ok" THEN st
    ELSE BatchLoop_StopAtFailure(selected, outcomes, cancel_during,
            LoopState(st.i + 1, cancel_during = st.i, 0, st.count + 1,
                      Append(st.effects, selected[st.i])))

\* for i, asset_info in enumerate(selected_assets):
\*     if progress.wasCanceled(): break
\*     progress.setValue(i)   -- the modal dialog handles a pending Cancel click here
\*     try: load / download; count += 1   except: log
\* cancel_during is the iteration whose setValue handles the click (0: no click)
RECURSIVE BatchLoop(_, _, _, _)
BatchLoop(selected, outcomes, cancel_during, st) ==
    IF st.i > Len(selected) THEN st
    ELSE IF st.canceled THEN [st EXCEPT !.seenAt = st.i]
    ELSE BatchLoop(selected, outcomes, cancel_during,
            IF outcomes[st.i] = "ok"
            THEN LoopState(st.i + 1, cancel_during = st.i, 0, st.count + 1,
                           Append(st.effects, selected[st.i]))
            ELSE LoopState(st.i + 1, cancel_during = st.i, 0, st.count, st.effects))

\* what a handler run leaves: no loop ran and a message was shown, or the loop's end
NoLoop(handler, selected, message) ==
    [NoBatch EXCEPT !.handler = handler, !.selected = selected, !.message = message]
Looped(handler, selected, outcomes, cancel_during, infoText) ==
    LET end == BatchLoop(selected, outcomes, cancel_during, LoopState(1, FALSE, 0, 0, <<>>)) IN
    [NoBatch EXCEPT
        !.handler = handler, !.selected = selected, !.outcomes = outcomes,
        !.cancel_during = cancel_during, !.looped = TRUE,
        !.processed = IF end.seenAt > 0 THEN end.seenAt - 1 ELSE Len(selected),
        !.seenAt = end.seenAt, !.count = end.count, !.effects = end.effects,
        !.message = Message("info", infoText, end.count, Len(selected))]

load_selected_assets(has_item, selected, outcomes, cancel_during) ==
    IF ~has_item
    THEN NoLoop("load_selected_assets", <<>>, Message("warning", "Please select an item first", 0, 0))
    ELSE IF selected = <<>>
    THEN NoLoop("load_selected_assets", selected,
                Message("warning", "Please select at least one asset to load", 0, 0))
    ELSE Looped("load_selected_assets", selected, outcomes, cancel_during, "Successfully loaded")

\* _download_assets(structured): os.makedirs runs only when structured and may raise
dialog_download_assets(structured, has_item, selected, path_ok, makedirs_raises, outcomes, cancel_during) ==
    LET handler == IF structured THEN "download_assets_structured" ELSE "download_assets" IN
    IF ~has_item
    THEN NoLoop(handler, <<>>, Message("warning", "Please select an item first", 0, 0))
    ELSE IF selected = <<>>
    THEN NoLoop(handler, selected,
                Message("warning", "Please select at least one asset to download", 0, 0))
    ELSE IF ~path_ok
    THEN NoLoop(handler, selected,
                Message("warning", "Please select a valid download directory", 0, 0))
    ELSE IF structured /\ makedirs_raises
    THEN NoLoop(handler, selected, Message("error", "Download failed", 0, 0))
    ELSE Looped(handler, selected, outcomes, cancel_during, "Successfully downloaded")

AssetOutcomes == {"ok", "raises"}

LoadSelectedAssets(has_item, selected, outcomes, cancel_during) ==
    /\ batch.handler = "none"
    /\ batch' = [load_selected_assets(has_item, selected, outcomes, cancel_during)
                    EXCEPT !.item_selected = has_item]
    /\ UNCHANGED <<storeVars, amVars, collVars, searchVars, layerVars, search_last, depVars, manageVars, plugin>>

DownloadSelectedAssets(structured, has_item, selected, path_ok, makedirs_raises, outcomes, cancel_during) ==
    /\ batch.handler = "none"
    /\ batch' = [dialog_download_assets(structured, has_item, selected, path_ok,
                                        makedirs_raises, outcomes, cancel_during)
                    EXCEPT !.item_selected = has_item, !.path_exists = path_ok]
    /\ UNCHANGED <<storeVars, amVars, collVars, searchVars, layerVars, search_last, depVars, manageVars, plugin>>

BatchInit == StoreIdle /\ AmIdle /\ CollIdle /\ BatchIdle /\ SearchIdle /\ LayerIdle /\ RequestIdle /\ DepIdle /\ ManageIdle /\ PluginIdle

BatchNext ==
    \E has_item \in BOOLEAN : \E selected \in SelectedAssetLists :
        \E outcomes \in [1..Len(selected) -> AssetOutcomes] :
            \E cancel_during \in 0..Len(selected) :
                \/ LoadSelectedAssets(has_item, selected, outcomes, cancel_during)
                \/ \E structured, path_ok, makedirs_raises \in BOOLEAN :
                      DownloadSelectedAssets(structured, has_item, selected, path_ok,
                                             makedirs_raises, outcomes, cancel_during)

SpecBatch == BatchInit /\ [][BatchNext]_vars

----------------------------------------------------------------------------
(* utils/layer_loader.py: load_cog_layer *)

\* the project holds this many layers at most
MaxLayers == 2

\* the items handed to the loader: an object without .assets, and an item with two
\* assets
StacItem(id, has_assets, assets) == [id |-> id, has_assets |-> has_assets, assets |-> assets]
LayerItems ==
    { StacItem("S2A_32TQM_20240501", FALSE, JDict(<<>>)),
      StacItem("S2A_32TQM_20240501", TRUE,
               JDict(<< Entry("B04", "https://example.org/S2A/B04.tif"),
                        Entry("visual", "https://example.org/S2A/TCI.tif") >>)) }
LayerKeys  == {"B04", "visual", "B08"}
\* layer_name: None ("") or a name of the caller
LayerNames == {"", "red band"}

\* what the call leaves: the project, and the layer returned or the exception raised
Loaded(proj, layer) == [project |-> proj, raised |-> FALSE, exc |-> "", ret |-> layer]
LoadRaised(proj, e) == [project |-> proj, raised |-> TRUE, exc |-> e, ret |-> NoLayer]

\* QgsRasterLayer('/vsicurl/' + url, layer_name or f'{item.id}_{asset_key}', 'gdal')
RasterLayer(item, asset_key, layer_name) ==
    Layer("/vsicurl/" \o DictGet(item.assets, asset_key, ""),
          IF layer_name = "" THEN item.id \o "_" \o asset_key ELSE layer_name)

\* (variant) the layer is added to the project before isValid() is asked
load_cog_layer_AddFirst(proj, item, asset_key, layer_name, valid) ==
    IF ~item.has_assets \/ ~HasKey(item.assets, asset_key) THEN LoadRaised(proj, "ValueError")
    ELSE IF valid
    THEN Loaded(Append(proj, RasterLayer(item, asset_key, layer_name)),
                RasterLayer(item, asset_key, layer_name))
    ELSE LoadRaised(Append(proj, RasterLayer(item, asset_key, layer_name)), "ValueError")

\* load_cog_layer: ValueError when the key is not in item.assets; the layer is added
\* and returned when it is valid (apply_default_style keeps its exceptions to
\* itself), ValueError otherwise; every exception is logged and raised again
load_cog_layer(proj, item, asset_key, layer_name, valid) ==
    IF ~item.has_assets \/ ~HasKey(item.assets, asset_key) THEN LoadRaised(proj, "ValueError")
    ELSE IF valid
    THEN Loaded(Append(proj, RasterLayer(item, asset_key, layer_name)),
                RasterLayer(item, asset_key, layer_name))
    ELSE LoadRaised(proj, "ValueError")

LoadCogLayer(item, asset_key, layer_name, valid) ==
    /\ Len(project) < MaxLayers
    /\ \E o \in {load_cog_layer(project, item, asset_key, layer_name, valid)} :
          /\ project' = o.project
          /\ load_last' = [op |-> "load_cog_layer", item |-> item, asset_key |-> asset_key,
                           layer_name |-> layer_name, valid |-> valid,
                           raised |-> o.raised, exc |-> o.exc, ret |-> o.ret]
    /\ UNCHANGED <<storeVars, amVars, collVars, batch, searchVars, search_last, depVars, manageVars, plugin>>

LayerInit == StoreIdle /\ AmIdle /\ CollIdle /\ BatchIdle /\ SearchIdle /\ LayerIdle /\ RequestIdle /\ DepIdle /\ ManageIdle /\ PluginIdle

LayerNext ==
    \E item \in LayerItems : \E asset_key \in LayerKeys : \E layer_name \in LayerNames :
        \E valid \in BOOLEAN : LoadCogLayer(item, asset_key, layer_name, valid)

SpecLayers == LayerInit /\ [][LayerNext]_vars

----------------------------------------------------------------------------
(* The connection store driven call by call *)

\* how many user-chosen profile names the model draws from NamePool
MaxUserNames == 1
NamePool  == <<"My STAC", "Lab Catalog", "Mirror">>
UserNames == {NamePool[i] : i \in 1..MaxUserNames}
Names     == {PC_NAME, AWS_NAME} \cup UserNames

USER_URL == "https://stac.example.org/v1"

\* what AddConnectionDialog.get_connection_config returns: it carries a 'name' key
DialogConfig(name, url, username, password, auto_sign) ==
    JDict(<< Entry("name", JStr(name)), Entry("url", JStr(url)),
             Entry("username", JStr(username)), Entry("password", JStr(password)),
             Entry("auto_sign", JBool(auto_sign)) >>)

\* the configs save_connection is called with: one with no key at all and the
\* dialog's full config
Configs(name) ==
    { JDict(<<>>),
      DialogConfig(name, USER_URL, "user", "secret", TRUE) }

\* what the settings key may hold before the plugin first reads it
PriorContents ==
    { SettingsAbsent,
      SettingsText(<<>>),                                        \* ''
      SettingsText(<<Tok("{"), Tok("}")>>),                      \* '{}'
      SettingsText(<<Tok("{"), TokStr(PC_NAME), Tok(":")>>),     \* cut short
      SettingsText(<<Tok("junk")>>),                             \* not JSON
      SettingsText(<<Tok("{"), Tok("}"), Tok("}")>>),            \* trailing data
      SettingsText(json_dumps(JDict(<<Entry(AWS_NAME, DEFAULT_CONNECTIONS.items[2].v)>>))),
      SettingsText(<<Tok("["), Tok("]")>>),                      \* '[]'
      SettingsText(<<Tok("["), TokStr(PC_NAME), Tok("]")>>),     \* a list of names
      SettingsText(<<TokNum(0)>>),
      SettingsText(<<TokNum(5)>>),
      SettingsText(<<Tok("null")>>),
      SettingsText(<<TokStr("")>>),                              \* '""'
      SettingsNative(JDict(<<Entry(PC_NAME, DEFAULT_CONNECTIONS.items[1].v)>>)),
      SettingsNative(JNum(5)) }

Call(opname, nm, cfg, o) ==
    [op |-> opname, name |-> nm, config |-> cfg, raised |-> o.raised,
     exc |-> o.exc, warned |-> ParseWarningLogged(settings),
     afterSave |-> (last.op = "save_connection" /\ ~last.raised /\ last.name = nm)]

\* ConnectionManager(): the object exists only when __init__ returned
Construct ==
    \E o \in {ConnectionManager_init(settings)} :
    /\ settings' = o.settings
    /\ manager' = (manager \/ ~o.raised)
    /\ last' = Call("__init__", "", JNull, o)
    /\ UNCHANGED <<amVars, collVars, batch, searchVars, layerVars, search_last, depVars, manageVars, plugin>>

SaveConnection(name, config) ==
    /\ manager
    /\ \E o \in {save_connection(settings, name, config)} :
        /\ settings' = o.settings
        /\ last' = Call("save_connection", name, config, o)
    /\ UNCHANGED <<manager, amVars, collVars, batch, searchVars, layerVars, search_last, depVars, manageVars, plugin>>

DeleteConnection(name) ==
    /\ manager
    /\ \E o \in {delete_connection(settings, name)} :
        /\ settings' = o.settings
        /\ last' = Call("delete_connection", name, JNull, o)
    /\ UNCHANGED <<manager, amVars, collVars, batch, searchVars, layerVars, search_last, depVars, manageVars, plugin>>

StoreInit ==
    /\ settings \in PriorContents
    /\ manager = FALSE
    /\ last = NoCall
    /\ AmIdle
    /\ CollIdle
    /\ BatchIdle /\ SearchIdle /\ LayerIdle /\ RequestIdle /\ DepIdle /\ ManageIdle /\ PluginIdle

\* the same calls from a store that holds nothing yet
FreshInit == StoreIdle /\ AmIdle /\ CollIdle /\ BatchIdle /\ SearchIdle /\ LayerIdle /\ RequestIdle /\ DepIdle /\ ManageIdle /\ PluginIdle

StoreNext ==
    \/ Construct
    \/ \E name \in Names : \E config \in Configs(name) : SaveConnection(name, config)
    \/ \E name \in Names : DeleteConnection(name)

SpecStore == StoreInit /\ [][StoreNext]_vars
SpecFresh == FreshInit /\ [][StoreNext]_vars

----------------------------------------------------------------------------
(* geodata_browser_dialog.py: what float() makes of the text of a line edit *)

Digits == <<"0", "1", "2", "3", "4", "5", "6", "7", "8", "9">>
IsDigit(c) == \E d \in 1..Len(Digits) : Digits[d] = c
DigitValue(c) == (CHOOSE d \in 1..Len(Digits) : Digits[d] = c) - 1

\* str.strip(), as float() does before it reads the number
RECURSIVE LStrip(_)
LStrip(t) == IF t # <<>> /\ t[1] = " " THEN LStrip(Tail(t)) ELSE t
RECURSIVE RStrip(_)
RStrip(t) == IF t # <<>> /\ t[Len(t)] = " " THEN RStrip(SubSeq(t, 1, Len(t) - 1)) ELSE t

\* the index after the run of digits that starts at i
RECURSIVE DigitsEnd(_, _)
DigitsEnd(t, i) == IF i <= Len(t) /\ IsDigit(t[i]) THEN DigitsEnd(t, i + 1) ELSE i

\* the number the digits t[i..j-1] write, continuing acc
RECURSIVE DigitsValue(_, _, _, _)
DigitsValue(t, i, j, acc) ==
    IF i >= j THEN acc ELSE DigitsValue(t, i + 1, j, acc * 10 + DigitValue(t[i]))

\* a float as sign * mant * 10^exp with mant free of trailing zeros, or nan / inf
RECURSIVE Normal(_, _, _)
Normal(sign, mant, exp) ==
    IF mant = 0 THEN [ok |-> TRUE, special |-> "", sign |-> sign, mant |-> 0, exp |-> 0]
    ELSE IF mant % 10 = 0 THEN Normal(sign, mant \div 10, exp + 1)
    ELSE [ok |-> TRUE, special |-> "", sign |-> sign, mant |-> mant, exp |-> exp]
Special(sign, what) == [ok |-> TRUE, special |-> what, sign |-> sign, mant |-> 0, exp |-> 0]
ValueError == [ok |-> FALSE, special |-> "", sign |-> 0, mant |-> 0, exp |-> 0]

LowerCase(c) ==
    CASE c = "N" -> "n" [] c = "A" -> "a" [] c = "I" -> "i" [] c = "F" -> "f"
      [] c = "T" -> "t" [] c = "Y" -> "y" [] c = "E" -> "e" [] OTHER -> c

LowerAll(s) == [i \in 1..Len(s) |-> LowerCase(s[i])]

\* the exponent: e, a sign, digits up to the end of the text
FloatExponent(sign, b, mant, nFrac, e1, e2) ==
    IF e2 > e1 /\ e2 = Len(b) + 1
    THEN Normal(sign, mant,
                (IF b[e1 - 1] = "-" THEN -1 ELSE 1) * DigitsValue(b, e1, e2, 0) - nFrac)
    ELSE ValueError

\* after the digits: the end of the text, or an exponent
FloatTail(sign, b, mant, nFrac, f1) ==
    IF f1 = Len(b) + 1 THEN Normal(sign, mant, -nFrac)
    ELSE IF b[f1] # "e" THEN ValueError
    ELSE IF f1 + 1 <= Len(b) /\ b[f1 + 1] \in {"+", "-"}
    THEN FloatExponent(sign, b, mant, nFrac, f1 + 2, DigitsEnd(b, f1 + 2))
    ELSE FloatExponent(sign, b, mant, nFrac, f1 + 1, DigitsEnd(b, f1 + 1))

\* digits before and after the point: one digit at least
FloatDigits(sign, b, i1, f0, f1) ==
    IF (i1 - 1) + (f1 - f0) = 0 THEN ValueError
    ELSE FloatTail(sign, b, DigitsValue(b, f0, f1, DigitsValue(b, 1, i1, 0)), f1 - f0, f1)

FloatPoint(sign, b, i1) ==
    IF i1 <= Len(b) /\ b[i1] = "."
    THEN FloatDigits(sign, b, i1, i1 + 1, DigitsEnd(b, i1 + 1))
    ELSE FloatDigits(sign, b, i1, i1, i1)

FloatBody(sign, b) ==
    IF b = <<"n", "a", "n">> THEN Special(sign, "nan")
    ELSE IF b \in {<<"i", "n", "f">>, <<"i", "n", "f", "i", "n", "i", "t", "y">>}
    THEN Special(sign, "inf")
    ELSE FloatPoint(sign, b, DigitsEnd(b, 1))

FloatStripped(s) ==
    IF s # <<>> /\ s[1] \in {"+", "-"}
    THEN FloatBody(IF s[1] = "-" THEN -1 ELSE 1, LowerAll(Tail(s)))
    ELSE FloatBody(1, LowerAll(s))

\* float(text): blanks off both ends, a sign, then nan, inf, infinity, or digits
\* with at most one point and an exponent; anything else is a ValueError.
\* (The digit groups 1_000 of Python 3.6 are not among the texts of this model.)
float(t) == FloatStripped(RStrip(LStrip(t)))

\* the digits of n >= 0
RECURSIVE DigitsOf(_)
DigitsOf(n) ==
    IF n < 10 THEN <<Digits[n + 1]>> ELSE Append(DigitsOf(n \div 10), Digits[(n % 10) + 1])

\* the digits of n, with zeros in front up to width
RECURSIVE ZeroPad(_, _)
ZeroPad(t, width) == IF Len(t) >= width THEN t ELSE ZeroPad(<<"0">> \o t, width)

\* f'{x:.6f}' of a coordinate given in millionths of a degree
Million == 1000000
FormatFixed6(micro) ==
    LET a == IF micro < 0 THEN -micro ELSE micro IN
    (IF micro < 0 THEN <<"-">> ELSE <<>>)
        \o DigitsOf(a \div Million) \o <<".">> \o ZeroPad(DigitsOf(a % Million), 6)

----------------------------------------------------------------------------
(* geodata_browser_dialog.py and geodata_browser.py: the search form and its results *)

\* the texts typed into a bbox line edit: a number, a number with blanks and an
\* exponent, nothing, and a text that is no number
T_NUM   == <<"-", "1", ".", "5">>
T_EXP   == <<" ", "2", "e", "1", " ">>
T_EMPTY == <<>>
T_BAD   == <<"1", "a">>
BBoxTexts == {T_NUM, T_EXP, T_EMPTY, T_BAD}
BBoxFields == {"west", "south", "east", "north"}

\* the contents the user leaves the four fields in: all of them T_NUM but at most one
BBoxForms ==
    {BBox(T_NUM, T_NUM, T_NUM, T_NUM)} \cup
    {[BBox(T_NUM, T_NUM, T_NUM, T_NUM) EXCEPT ![f] = t] : f \in BBoxFields, t \in BBoxTexts}

\* canvas.extent() in EPSG:4326, in millionths of a degree
CanvasExtents ==
    {[xMinimum |-> -1500000, yMinimum |-> 250000, xMaximum |-> 2000000, yMaximum |-> 41000000]}

\* cloudCoverSlider: setRange(0, 100), setValue(30)
CloudCovers == {0, 30}

\* the items a catalog returns: an id and properties['datetime'], which may be null
NumItemIds == 2
ItemIdPool == <<"S2A_32TQM_20240501", "S2B_32TQM_20240506", "LC09_190030_20240503">>
ItemIds    == {ItemIdPool[i] : i \in 1..NumItemIds}
Item(id, isNone, date) == [id |-> id, datetimeIsNone |-> isNone, date |-> date]
ItemOf(id) == Item(id, FALSE, "2024-05-01")

\* the lists of items with different ids
ItemLists ==
    {[i \in 1..Len(q) |-> ItemOf(q[i])] :
        q \in {p \in UNION {[1..n -> ItemIds] : n \in 0..NumItemIds} :
                  \A i, j \in 1..Len(p) : i # j => p[i] # p[j]}}

\* the first n items of the pool, the last of them with a null datetime
NullDatetimeLists ==
    {[i \in 1..n |-> IF i = n THEN Item(ItemIdPool[i], TRUE, "") ELSE ItemOf(ItemIdPool[i])] :
        n \in 1..NumItemIds}

\* what the catalog does with a search: Client.open raises, the search raises, or
\* items come back
SearchOutcome(stage, items) == [stage |-> stage, items |-> items]
SearchOutcomes ==
    {SearchOutcome("open_raises", <<>>), SearchOutcome("search_raises", <<>>)} \cup
    {SearchOutcome("items", items) : items \in ItemLists \cup NullDatetimeLists}

\* a row of resultsTable: the id cell, the date cell, and whether all cells were set
Row(id, date, complete) == [id |-> id, date |-> date, complete |-> complete]

\* display_results after setRowCount(0): a row per item; datetime[:10] of None is a
\* TypeError that leaves the row with its id and collection cells only
RECURSIVE DisplayRows(_, _, _)
DisplayRows(items, i, rows) ==
    IF i > Len(items) THEN [raised |-> FALSE, table |-> rows]
    ELSE IF items[i].datetimeIsNone
    THEN [raised |-> TRUE, table |-> Append(rows, Row(items[i].id, "", FALSE))]
    ELSE DisplayRows(items, i + 1, Append(rows, Row(items[i].id, items[i].date, TRUE)))
display_results(items) == DisplayRows(items, 1, <<>>)

\* collectionList.selectedItems(): the listed collections at the chosen rows
SelectedRows(collections, rows) ==
    CheckedRows(collections, [i \in 1..Len(collections) |-> i \in rows], 1)

Request(connection, collections, bbox, cloud_cover) ==
    [NoRequest EXCEPT !.called = TRUE, !.connection = connection,
                      !.collections = collections, !.bbox = bbox,
                      !.cloud_cover = cloud_cover]

\* (variant) the handler logs and returns no items, as list_collections does
SearchCall_ReturnEmpty(c, call, cloud_cover, outcome) ==
    IF c.raised THEN [call EXCEPT !.stage = "open", !.logged = TRUE]
    ELSE IF outcome.stage = "search_raises"
    THEN [call EXCEPT !.sent = TRUE, !.query_lt = cloud_cover, !.stage = "search",
                      !.logged = TRUE]
    ELSE [call EXCEPT !.sent = TRUE, !.query_lt = cloud_cover, !.stage = "items",
                      !.items = outcome.items]

\* the try block of search_items with c the outcome of _get_client: the query is
\* eo:cloud_cover < cloud_cover (cloud_cover is never None here); on an exception:
\* log, raise
SearchCall(c, call, cloud_cover, outcome) ==
    IF c.raised
    THEN [call EXCEPT !.stage = "open", !.logged = TRUE, !.raised = TRUE, !.exc = c.exc]
    ELSE IF outcome.stage = "search_raises"
    THEN [call EXCEPT !.sent = TRUE, !.query_lt = cloud_cover, !.stage = "search",
                      !.logged = TRUE, !.raised = TRUE, !.exc = "APIError"]
    ELSE [call EXCEPT !.sent = TRUE, !.query_lt = cloud_cover, !.stage = "items",
                      !.items = outcome.items]

\* CustomStacClient.search_items
search_items(available, connection, collections, bbox, cloud_cover, outcome) ==
    SearchCall(get_client_for(available, connection, outcome.stage = "open_raises"),
               Request(connection, collections, bbox, cloud_cover), cloud_cover, outcome)

\* (variant) only the west field is tried
validate_search_params_WestOnly(bbox) == float(bbox.west).ok

\* float() of the four fields; a ValueError gives the warning and False
validate_search_params(bbox) ==
    /\ float(bbox.west).ok
    /\ float(bbox.south).ok
    /\ float(bbox.east).ok
    /\ float(bbox.north).ok

\* what a handler leaves: the dialog and the search_items call it made
Handled(d, call) == [dlg |-> d, call |-> call]
Warned(d, text) ==
    Handled([d EXCEPT !.message = Message("warning", text, 0, 0), !.op = "perform_search",
                      !.raised = FALSE], NoRequest)
\* (variant) the except branch leaves the button as it is
SearchFailed_ButtonLeft(d, call) ==
    Handled([d EXCEPT !.message = Message("error", "Search failed", 0, 0),
                      !.status = Status("Search failed", 0),
                      !.op = "perform_search", !.raised = FALSE], call)

\* except Exception: show_error, 'Search failed', button enabled
SearchFailed(d, call) ==
    Handled([d EXCEPT !.message = Message("error", "Search failed", 0, 0),
                      !.status = Status("Search failed", 0), !.searchEnabled = TRUE,
                      !.op = "perform_search", !.raised = FALSE], call)

BBoxFloats(bbox) ==
    <<float(bbox.west), float(bbox.south), float(bbox.east), float(bbox.north)>>

Searching(d) == [d EXCEPT !.status = Status("Searching...", 0), !.searchEnabled = FALSE]

\* current_items = items; display_results; footprints when the map is shown;
\* 'Found n items'; the button enabled
ShowItems(d, call, shown) ==
    IF shown.raised
    THEN SearchFailed([Searching(d) EXCEPT !.current_items = call.items,
                                           !.table = shown.table], call)
    ELSE Handled([d EXCEPT !.current_items = call.items, !.table = shown.table,
                           !.rubber_bands = IF d.show_map THEN Len(call.items) ELSE @,
                           !.status = Status("Found", Len(call.items)),
                           !.searchEnabled = TRUE, !.message = NoMessage,
                           !.op = "perform_search", !.raised = FALSE], call)

\* 'Searching...', the button disabled, then the call
Searched(d, call) ==
    IF call.raised THEN SearchFailed(Searching(d), call)
    ELSE ShowItems(d, call, display_results(call.items))

\* (variant) the search goes on with whatever get_connection returned
SearchWith_AnyConnection(d, connection, collections, floats, available, cloud_cover, outcome) ==
    IF connection.raised THEN SearchFailed(d, NoRequest)
    ELSE IF collections = <<>> THEN Warned(d, "Please select at least one collection")
    ELSE IF \E i \in 1..Len(floats) : ~floats[i].ok THEN SearchFailed(d, NoRequest)
    ELSE Searched(d, search_items(available, connection.ret, collections, floats,
                                  cloud_cover, outcome))

\* the steps of perform_search after validation
SearchWith(d, connection, collections, floats, available, cloud_cover, outcome) ==
    IF connection.raised THEN SearchFailed(d, NoRequest)
    ELSE IF ~Truthy(connection.ret) THEN Warned(d, "Please select a valid connection")
    ELSE IF collections = <<>> THEN Warned(d, "Please select at least one collection")
    ELSE IF \E i \in 1..Len(floats) : ~floats[i].ok THEN SearchFailed(d, NoRequest)
    ELSE Searched(d, search_items(available, connection.ret, collections, floats,
                                  cloud_cover, outcome))

\* perform_search; valid, connection and floats are what validate_search_params(),
\* get_connection(currentText()) and the four float() calls give for the dialog d
perform_search(d, valid, connection, floats, available, rows, cloud_cover, outcome) ==
    IF ~valid
    THEN Warned(d, "Please provide valid bounding box coordinates")
    ELSE SearchWith(d, connection, SelectedRows(d.collections, rows),
                    floats, available, cloud_cover, outcome)

\* populate_collections: nothing without a provider or a profile; else the list is
\* replaced by what list_collections returns
populate_collections(d, st, available, open_raises, listing) ==
    LET connection == get_connection(st, d.provider) IN
    IF d.provider = "" THEN d
    ELSE IF connection.raised THEN [d EXCEPT !.status = Status("Error loading collections", 0)]
    ELSE IF ~Truthy(connection.ret) THEN d
    ELSE LET collections == list_collections(available, connection.ret, open_raises, listing).ret IN
         [d EXCEPT !.collections = collections,
                   !.status = Status("Loaded", Len(collections))]

\* GeodataBrowserDialog(iface): a ConnectionManager, empty results, the combo filled
\* with the profile names (the first one current), the collections of that profile
NewDialog(st, available, open_raises, listing) ==
    LET names == get_connection_names(st).ret.items
        first == IF names = <<>> THEN "" ELSE names[1].v.s
        d == [NoDialog EXCEPT !.exists = TRUE, !.provider = first] IN
    IF names = <<>> THEN d ELSE populate_collections(d, st, available, open_raises, listing)

\* the listings a catalog gives the dialog
DialogListings ==
    {Listing(TRUE, <<>>), Listing(FALSE, <<CollectionPool[1], CollectionPool[2]>>)}

\* providerCombo.addItems(get_connection_names()): the names as the combo holds them
NamesOf(names) == [i \in 1..Len(names.ret.items) |-> names.ret.items[i].v.s]
NameList(st) == NamesOf(get_connection_names(st))

\* GeodataBrowser.run after check_dependencies() gave deps_ok: nothing without the
\* dependencies; the dialog is made once, then shown
RunDialog(deps_ok, open_raises, listing) ==
    /\ ~conn_dlg.open
    /\ IF ~deps_ok THEN UNCHANGED <<dlg, stac_call, storeVars, providerCombo>>
       ELSE IF dlg.exists
       THEN /\ dlg' = [dlg EXCEPT !.visible = TRUE, !.message = NoMessage, !.op = "run",
                                  !.raised = FALSE]
            /\ stac_call' = NoRequest
            /\ UNCHANGED <<storeVars, providerCombo>>
       ELSE \E o \in {ConnectionManager_init(settings)} :
            /\ stac_call' = NoRequest
            /\ providerCombo' = IF o.raised \/ get_connection_names(o.settings).raised
                                THEN <<>> ELSE NameList(o.settings)
            /\ settings' = o.settings
            /\ manager' = (manager \/ ~o.raised)
            /\ last' = Call("__init__", "", JNull, o)
            /\ dlg' = IF o.raised \/ get_connection_names(o.settings).raised
                      THEN [NoDialog EXCEPT !.op = "run", !.raised = TRUE]
                      ELSE [NewDialog(o.settings, pystac_available, open_raises, listing)
                               EXCEPT !.visible = TRUE, !.op = "run"]
    /\ UNCHANGED <<amVars, collVars, batch, layerVars, search_last, depVars, conn_dlg>>

\* GeodataBrowser.run
Run(deps_ok, open_raises, listing) == RunDialog(deps_ok, open_raises, listing) /\ UNCHANGED plugin

\* the user leaves the bbox fields holding other texts
EditBBox(bbox) ==
    /\ dlg.visible /\ ~conn_dlg.open /\ bbox # dlg.bbox
    /\ dlg' = [dlg EXCEPT !.bbox = bbox, !.message = NoMessage, !.op = "edit", !.raised = FALSE]
    /\ stac_call' = NoRequest
    /\ UNCHANGED <<storeVars, amVars, collVars, batch, layerVars, search_last, depVars, manageVars, plugin>>

\* use_canvas_extent: the four fields get the extent, six decimals each
UseCanvasExtent(extent) ==
    /\ dlg.visible /\ ~conn_dlg.open
    /\ dlg' = [dlg EXCEPT !.bbox = BBox(FormatFixed6(extent.xMinimum), FormatFixed6(extent.yMinimum),
                                        FormatFixed6(extent.xMaximum), FormatFixed6(extent.yMaximum)),
                          !.message = NoMessage, !.op = "use_canvas_extent", !.raised = FALSE]
    /\ stac_call' = NoRequest
    /\ UNCHANGED <<storeVars, amVars, collVars, batch, layerVars, search_last, depVars, manageVars, plugin>>

ClearBBox ==
    /\ dlg.visible /\ ~conn_dlg.open
    /\ dlg' = [dlg EXCEPT !.bbox = EmptyBBox, !.message = NoMessage, !.op = "clear_bbox",
                          !.raised = FALSE]
    /\ stac_call' = NoRequest
    /\ UNCHANGED <<storeVars, amVars, collVars, batch, layerVars, search_last, depVars, manageVars, plugin>>

\* toggle_map_preview: footprints of the current items when checked, none otherwise
ToggleMapPreview ==
    /\ dlg.visible /\ ~conn_dlg.open
    /\ dlg' = [dlg EXCEPT !.show_map = ~dlg.show_map,
                          !.rubber_bands = IF ~dlg.show_map THEN Len(dlg.current_items) ELSE 0,
                          !.message = NoMessage, !.op = "toggle_map_preview", !.raised = FALSE]
    /\ stac_call' = NoRequest
    /\ UNCHANGED <<storeVars, amVars, collVars, batch, layerVars, search_last, depVars, manageVars, plugin>>

\* a click on Search: the rows chosen in the collection list, the slider and what the
\* catalog answers are the inputs
PerformSearch ==
    /\ dlg.visible /\ ~conn_dlg.open /\ dlg.searchEnabled
    /\ \E valid \in {validate_search_params(dlg.bbox)} :
       \E connection \in {get_connection(settings, dlg.provider)} :
       \E floats \in {BBoxFloats(dlg.bbox)} :
       \E rows \in SUBSET (1..Len(dlg.collections)) : \E cloud_cover \in CloudCovers :
       \E outcome \in SearchOutcomes :
       \E h \in {perform_search(dlg, valid, connection, floats, pystac_available,
                                 rows, cloud_cover, outcome)} :
          /\ dlg' = h.dlg
          /\ stac_call' = h.call
    /\ UNCHANGED <<storeVars, amVars, collVars, batch, layerVars, search_last, depVars, manageVars, plugin>>

\* closeEvent: the rubber bands are reset and dropped, the event accepted
CloseEvent ==
    /\ dlg.visible /\ ~conn_dlg.open
    /\ dlg' = [dlg EXCEPT !.visible = FALSE, !.rubber_bands = 0, !.message = NoMessage,
                          !.op = "closeEvent", !.raised = FALSE]
    /\ stac_call' = NoRequest
    /\ UNCHANGED <<storeVars, amVars, collVars, batch, layerVars, search_last, depVars, manageVars, plugin>>

SearchInit == StoreIdle /\ AmIdle /\ CollIdle /\ BatchIdle /\ SearchIdle /\ LayerIdle /\ RequestIdle /\ DepIdle /\ ManageIdle /\ PluginIdle

SearchNext ==
    \/ \E deps_ok, open_raises \in BOOLEAN : \E listing \in DialogListings :
          Run(deps_ok, open_raises, listing)
    \/ \E bbox \in BBoxForms : EditBBox(bbox)
    \/ \E extent \in CanvasExtents : UseCanvasExtent(extent)
    \/ ClearBBox
    \/ ToggleMapPreview
    \/ PerformSearch
    \/ CloseEvent

SpecSearch == SearchInit /\ [][SearchNext]_vars

----------------------------------------------------------------------------
(* dialogs/add_connection_dialog.py *)

\* QLineEdit.text() as a Python str
RECURSIVE Join(_)
Join(t) == IF t = <<>> THEN "" ELSE t[1] \o Join(Tail(t))

\* str.strip()
strip(t) == RStrip(LStrip(t))

PC_TEXT   == <<"Planetary", " ", "Computer">>
AWS_TEXT  == <<"AWS", " ", "EarthSearch">>
USER_TEXT == <<"My", " ", "STAC">>

\* the texts setText() is given when a stored profile is loaded into the form
KnownTexts ==
    {<<>>, PC_TEXT, AWS_TEXT, USER_TEXT, <<PC_URL>>, <<AWS_URL>>, <<USER_URL>>,
     <<"user">>, <<" ", "pw", " ">>}
TextOf(s) == CHOOSE t \in KnownTexts : Join(t) = s

\* load_connection: the name, and the four values of the record with their defaults
load_connection(connection, name) ==
    Form(TextOf(name),
         TextOf(DictGet(connection, "url", JStr("")).s),
         TextOf(DictGet(connection, "username", JStr("")).s),
         TextOf(DictGet(connection, "password", JStr("")).s),
         DictGet(connection, "auto_sign", JBool(FALSE)).b)

\* AddConnectionDialog(connection, parent, name): the form is loaded `if connection`
AddConnectionDialog_init(connection, name) ==
    IF Truthy(connection) THEN load_connection(connection, name) ELSE EmptyForm

\* get_connection_config: name, url and username stripped, the password as typed
get_connection_config(form) ==
    DialogConfig(Join(strip(form.name)), Join(strip(form.url)), Join(strip(form.username)),
                 Join(form.password), form.auto_sign)

Accepted == [accepted |-> TRUE, message |-> NoMessage]
Refused(text) == [accepted |-> FALSE, message |-> Message("warning", text, 0, 0)]
Cancelled == [accepted |-> FALSE, message |-> NoMessage]

\* (variant) the fields are tested as typed, not stripped
accept_AsTyped(form) ==
    IF Join(form.name) = "" THEN Refused("Please enter a connection name.")
    ELSE IF Join(form.url) = "" THEN Refused("Please enter an API URL.")
    ELSE Accepted

\* accept: a warning and no super().accept() while the name or the URL of the config
\* is empty
accept(form) ==
    IF ~Truthy(DictGet(get_connection_config(form), "name", JNull))
    THEN Refused("Please enter a connection name.")
    ELSE IF ~Truthy(DictGet(get_connection_config(form), "url", JNull))
    THEN Refused("Please enter an API URL.")
    ELSE Accepted

\* manager.test_connection(config): every exception is caught, a (success, message)
\* pair comes back
TestOutcomes == {"collections listed", "open or listing failed"}
manager_test_connection(config, outcome) ==
    IF outcome = "collections listed"
    THEN Message("information", "Connection Successful", 0, 0)
    ELSE Message("critical", "Connection Failed", 0, 0)

\* the test with the manager that ConnectionManager() gave as o
Tested(o, config, outcome) ==
    IF o.raised THEN [settings |-> o.settings, message |-> NoMessage, raised |-> TRUE]
    ELSE [settings |-> o.settings, message |-> manager_test_connection(config, outcome),
          raised |-> FALSE]

\* AddConnectionDialog.test_connection: a warning while the URL is empty; otherwise
\* a ConnectionManager of its own is built and asked to test the config
test_connection(st, form, outcome) ==
    IF ~Truthy(DictGet(get_connection_config(form), "url", JNull))
    THEN [settings |-> st, message |-> Message("warning", "Invalid Input", 0, 0),
          raised |-> FALSE]
    ELSE Tested(ConnectionManager_init(st), get_connection_config(form), outcome)

\* exec_() with the form as the user leaves it: Ok runs accept (after a warning the
\* dialog stays open, and is then cancelled); Cancel rejects
Buttons == {"Ok", "Cancel"}
AddConnectionDialog_exec(form, button) ==
    IF button = "Ok" THEN accept(form) ELSE Cancelled

----------------------------------------------------------------------------
(* dialogs/connection_dialog.py *)

\* what a handler of the dialog leaves: the settings and the dialog
Managed(st, cd) == [settings |-> st, cd |-> cd]

\* the dialog as a handler finds it when it starts
Acted(cd, op) ==
    [cd EXCEPT !.op = op, !.message = NoMessage, !.name = "", !.new_name = "",
               !.form = EmptyForm, !.accepted = FALSE, !.raised = FALSE]

\* ConnectionDialog.load_connections: clear(), then the names of the store
ConnectionDialog_load_connections(cd, st) ==
    IF get_connection_names(st).raised
    THEN [cd EXCEPT !.connectionsList = <<>>, !.currentRow = 0, !.raised = TRUE]
    ELSE [cd EXCEPT !.connectionsList = NameList(st), !.currentRow = 0]

\* save_connection(name, config); load_connections()
SaveAndReload(o, cd) ==
    IF o.raised THEN Managed(o.settings, [cd EXCEPT !.raised = TRUE])
    ELSE Managed(o.settings, ConnectionDialog_load_connections(cd, o.settings))

\* (variant) the name is saved without looking for it in the store
add_connection_NoCheck(st, cd, form, button) ==
    IF ~AddConnectionDialog_exec(form, button).accepted
    THEN Managed(st, [Acted(cd, "add_connection") EXCEPT
                         !.form = IF button = "Ok" THEN form ELSE EmptyForm,
                         !.message = AddConnectionDialog_exec(form, button).message])
    ELSE SaveAndReload(save_connection(st, Join(strip(form.name)), get_connection_config(form)),
                       [Acted(cd, "add_connection") EXCEPT
                           !.form = form, !.accepted = TRUE,
                           !.new_name = Join(strip(form.name))])

\* the accepted branch of add_connection with names the list get_connection_names()
\* gave
AddAccepted(st, cd, name, config, names) ==
    IF names.raised THEN Managed(st, [cd EXCEPT !.raised = TRUE])
    ELSE IF \E i \in 1..Len(names.ret.items) : names.ret.items[i].v = JStr(name)
    THEN Managed(st, [cd EXCEPT !.message = Message("warning", "Duplicate Name", 0, 0)])
    ELSE SaveAndReload(save_connection(st, name, config), cd)

\* ConnectionDialog.add_connection
add_connection(st, cd, form, button) ==
    IF ~AddConnectionDialog_exec(form, button).accepted
    THEN Managed(st, [Acted(cd, "add_connection") EXCEPT
                         !.form = IF button = "Ok" THEN form ELSE EmptyForm,
                         !.message = AddConnectionDialog_exec(form, button).message])
    ELSE AddAccepted(st, [Acted(cd, "add_connection") EXCEPT
                             !.form = form, !.accepted = TRUE,
                             !.new_name = Join(strip(form.name))],
                     Join(strip(form.name)), get_connection_config(form),
                     get_connection_names(st))

\* the accepted branch of edit_connection: delete the old name when it changed, save
EditAccepted(st, cd, name, new_name, config) ==
    IF new_name # name
    THEN IF delete_connection(st, name).raised
         THEN Managed(st, [cd EXCEPT !.raised = TRUE])
         ELSE SaveAndReload(save_connection(delete_connection(st, name).settings,
                                            new_name, config), cd)
    ELSE SaveAndReload(save_connection(st, new_name, config), cd)

\* ConnectionDialog.edit_connection
edit_connection(st, cd, form, button) ==
    IF cd.currentRow = 0
    THEN Managed(st, [Acted(cd, "edit_connection") EXCEPT
                         !.message = Message("warning", "No Selection", 0, 0)])
    ELSE IF ~AddConnectionDialog_exec(form, button).accepted
    THEN Managed(st, [Acted(cd, "edit_connection") EXCEPT
                         !.name = cd.connectionsList[cd.currentRow],
                         !.form = IF button = "Ok" THEN form ELSE EmptyForm,
                         !.message = AddConnectionDialog_exec(form, button).message])
    ELSE EditAccepted(st, [Acted(cd, "edit_connection") EXCEPT
                              !.name = cd.connectionsList[cd.currentRow], !.form = form,
                              !.accepted = TRUE, !.new_name = Join(strip(form.name))],
                      cd.connectionsList[cd.currentRow], Join(strip(form.name)),
                      get_connection_config(form))

\* ConnectionDialog.remove_connection
Replies == {"Yes", "No"}
remove_connection(st, cd, reply) ==
    IF cd.currentRow = 0
    THEN Managed(st, [Acted(cd, "remove_connection") EXCEPT
                         !.message = Message("warning", "No Selection", 0, 0)])
    ELSE IF reply # "Yes"
    THEN Managed(st, [Acted(cd, "remove_connection") EXCEPT
                         !.name = cd.connectionsList[cd.currentRow]])
    ELSE SaveAndReload(delete_connection(st, cd.connectionsList[cd.currentRow]),
                       [Acted(cd, "remove_connection") EXCEPT
                           !.name = cd.connectionsList[cd.currentRow], !.accepted = TRUE])

\* how the dialog is left, and what exec_() returns for it: the Close button has the
\* reject role and rejected is connected to reject(); Escape and the window's close
\* button reject as well; nothing calls accept()
Closings == {"Close", "Escape", "WindowClose"}
ConnectionDialog_exec(how) ==
    CASE how = "Close" -> 0
      [] how = "Escape" -> 0
      [] OTHER -> 0

----------------------------------------------------------------------------
(* geodata_browser_dialog.py: the provider dropdown and manage_connections *)

\* GeodataBrowserDialog.load_connections: the combo is cleared and filled with the
\* names of the store, the first one current; the collections of that profile
load_connections(d, st, available, open_raises, listing) ==
    IF NameList(st) = <<>> THEN [d EXCEPT !.provider = ""]
    ELSE populate_collections([d EXCEPT !.provider = NameList(st)[1]], st, available,
                              open_raises, listing)

\* the texts the user leaves in the name and URL fields of the add dialog
AddNameTexts == {<<" ">>, <<" ", "My", " ", "STAC", " ">>, PC_TEXT}
EditNameTexts == {<<" ">>, USER_TEXT, AWS_TEXT}
UrlTexts == {<<" ", " ">>, <<" ", USER_URL>>}
AddForms ==
    {Form(name, url, <<"user">>, <<" ", "pw", " ">>, TRUE) :
        name \in AddNameTexts, url \in UrlTexts}

\* the forms an edit may end with: the loaded record with the name and the URL kept
\* or typed over
TypedOver(loaded) ==
    {[loaded EXCEPT !.name = name, !.url = url] :
        name \in EditNameTexts \cup {loaded.name}, url \in UrlTexts \cup {loaded.url}}
EditForms(st, cd) ==
    IF cd.currentRow = 0 THEN {EmptyForm}
    ELSE TypedOver(AddConnectionDialog_init(
                       get_connection(st, cd.connectionsList[cd.currentRow]).ret,
                       cd.connectionsList[cd.currentRow]))

\* the combo shows another name: on_provider_changed, populate_collections
SelectProvider(i, open_raises, listing) ==
    /\ dlg.visible /\ ~conn_dlg.open
    /\ i \in 1..Len(providerCombo) /\ providerCombo[i] # dlg.provider
    /\ dlg' = [populate_collections([dlg EXCEPT !.provider = providerCombo[i]], settings,
                                    pystac_available, open_raises, listing)
                  EXCEPT !.message = NoMessage, !.op = "on_provider_changed",
                         !.raised = FALSE]
    /\ stac_call' = NoRequest
    /\ UNCHANGED <<storeVars, amVars, collVars, batch, layerVars, search_last, depVars, manageVars, plugin>>

\* manage_connections up to exec_(): a ConnectionDialog with the names of the store
ManageConnections ==
    /\ dlg.visible /\ ~conn_dlg.open
    /\ conn_dlg' = ConnectionDialog_load_connections(
                       [NoConnectionDialog EXCEPT !.open = TRUE,
                                                  !.op = "manage_connections"], settings)
    /\ dlg' = [dlg EXCEPT !.message = NoMessage, !.op = "manage_connections",
                          !.raised = FALSE]
    /\ stac_call' = NoRequest
    /\ UNCHANGED <<storeVars, amVars, collVars, batch, layerVars, search_last, depVars, providerCombo, plugin>>

\* the user picks a row of connectionsList
SelectRow(i) ==
    /\ conn_dlg.open
    /\ i \in 1..Len(conn_dlg.connectionsList) /\ i # conn_dlg.currentRow
    /\ conn_dlg' = [Acted(conn_dlg, "select") EXCEPT !.currentRow = i]
    /\ UNCHANGED <<storeVars, amVars, collVars, batch, searchVars, layerVars, search_last, depVars, providerCombo, plugin>>

AddConnection ==
    /\ conn_dlg.open
    /\ \E form \in AddForms : \E button \in Buttons :
       \E o \in {add_connection(settings, conn_dlg, form, button)} :
          /\ settings' = o.settings
          /\ conn_dlg' = o.cd
    /\ UNCHANGED <<manager, last, amVars, collVars, batch, searchVars, layerVars, search_last, depVars, providerCombo, plugin>>

EditConnection ==
    /\ conn_dlg.open
    /\ \E form \in EditForms(settings, conn_dlg) : \E button \in Buttons :
       \E o \in {edit_connection(settings, conn_dlg, form, button)} :
          /\ settings' = o.settings
          /\ conn_dlg' = o.cd
    /\ UNCHANGED <<manager, last, amVars, collVars, batch, searchVars, layerVars, search_last, depVars, providerCombo, plugin>>

RemoveConnection(reply) ==
    /\ conn_dlg.open
    /\ \E o \in {remove_connection(settings, conn_dlg, reply)} :
          /\ settings' = o.settings
          /\ conn_dlg' = o.cd
    /\ UNCHANGED <<manager, last, amVars, collVars, batch, searchVars, layerVars, search_last, depVars, providerCombo, plugin>>

\* the dialog is left and exec_() returns: `if dlg.exec_(): self.load_connections()`
\* (the catalog is asked only when load_connections runs)
CloseManage(how) ==
    /\ conn_dlg.open
    /\ conn_dlg' = [Acted(conn_dlg, "closed") EXCEPT !.open = FALSE, !.currentRow = 0,
                                                    !.result = ConnectionDialog_exec(how)]
    /\ IF ConnectionDialog_exec(how) # 0
       THEN \E open_raises \in BOOLEAN : \E listing \in DialogListings :
            /\ providerCombo' = NameList(settings)
            /\ dlg' = load_connections(dlg, settings, pystac_available, open_raises, listing)
       ELSE UNCHANGED <<providerCombo, dlg>>
    /\ UNCHANGED <<stac_call, storeVars, amVars, collVars, batch, layerVars, search_last, depVars, plugin>>

ManageInit ==
    /\ StoreIdle /\ AmIdle /\ CollIdle /\ BatchIdle /\ SearchIdle /\ LayerIdle
    /\ RequestIdle /\ DepIdle /\ ManageIdle /\ PluginIdle

\* the connection dialog at work
ManageNext ==
    \/ \E deps_ok \in BOOLEAN :
          Run(deps_ok, FALSE, Listing(FALSE, <<CollectionPool[1], CollectionPool[2]>>))
    \/ ManageConnections
    \/ \E i \in 1..3 : SelectRow(i)
    \/ AddConnection
    \/ EditConnection
    \/ \E reply \in Replies : RemoveConnection(reply)
    \/ \E how \in Closings : CloseManage(how)

SpecManage == ManageInit /\ [][ManageNext]_vars

\* searches while profiles are removed behind the dropdown
ProfilesNext ==
    \/ \E deps_ok, open_raises \in BOOLEAN : \E listing \in DialogListings :
          Run(deps_ok, open_raises, listing)
    \/ \E extent \in CanvasExtents : UseCanvasExtent(extent)
    \/ \E i \in 1..3 : \E open_raises \in BOOLEAN : \E listing \in DialogListings :
          SelectProvider(i, open_raises, listing)
    \/ ManageConnections
    \/ \E i \in 1..3 : SelectRow(i)
    \/ \E reply \in Replies : RemoveConnection(reply)
    \/ \E how \in Closings : CloseManage(how)
    \/ PerformSearch

SpecProfiles == ManageInit /\ [][ProfilesNext]_vars

\* the forms Test Connection is pressed on
TestForms == {Form(USER_TEXT, url, <<>>, <<>>, FALSE) : url \in UrlTexts}

\* the Add button opens an AddConnectionDialog, the user fills the form and presses
\* Test Connection, then leaves with Cancel: add_connection saves nothing
TestConnection(outcome) ==
    /\ conn_dlg.open
    /\ \E form \in TestForms :
       \E o \in {test_connection(settings, form, outcome)} :
          /\ settings' = o.settings
          /\ conn_dlg' = [Acted(conn_dlg, "test_connection") EXCEPT
                             !.form = form, !.message = o.message, !.raised = o.raised]
    /\ UNCHANGED <<manager, last, amVars, collVars, batch, searchVars, layerVars, search_last, depVars, providerCombo, plugin>>

\* connections are tested while profiles are added and removed in the connection
\* dialog
TestNext ==
    \/ \E deps_ok \in BOOLEAN :
          Run(deps_ok, FALSE, Listing(FALSE, <<CollectionPool[1], CollectionPool[2]>>))
    \/ ManageConnections
    \/ \E i \in 1..3 : SelectRow(i)
    \/ AddConnection
    \/ \E reply \in Replies : RemoveConnection(reply)
    \/ \E outcome \in TestOutcomes : TestConnection(outcome)
    \/ \E how \in Closings : CloseManage(how)

SpecTest == ManageInit /\ [][TestNext]_vars

----------------------------------------------------------------------------
(* core/custom_stac_client.py and core/search_handler.py: what search_items hands to
   client.search *)

\* (variant) `if cloud_cover:` in place of `if cloud_cover is not None:`
BuildQuery_IfCloudCover(cloud_cover) ==
    IF Truthy(cloud_cover)
    THEN DictSet(JDict(<<>>), "eo:cloud_cover", JDict(<<Entry("lt", cloud_cover)>>))
    ELSE JNull

\* query = {}; if cloud_cover is not None: query['eo:cloud_cover'] = {'lt': cloud_cover};
\* then `query if query else None`
BuildQuery(cloud_cover) ==
    IF Truthy(IF cloud_cover # JNull
              THEN DictSet(JDict(<<>>), "eo:cloud_cover", JDict(<<Entry("lt", cloud_cover)>>))
              ELSE JDict(<<>>))
    THEN DictSet(JDict(<<>>), "eo:cloud_cover", JDict(<<Entry("lt", cloud_cover)>>))
    ELSE JNull

\* the arguments of a search_items call; the query slot holds cloud_cover
CollectionArgs == {JList(<<>>), JList(<<Entry("", JStr(CollectionPool[1]))>>)}
BBoxArgs ==
    {JNull, JList(<<Entry("", JNum(-2)), Entry("", JNum(41)), Entry("", JNum(3)),
                    Entry("", JNum(44))>>)}
DatetimeArgs   == {JNull, JStr("2024-01-01/2024-12-31")}
CloudCoverArgs == {JNull} \cup {JNum(c) : c \in CloudCovers}
LimitArgs      == {JNum(10)}
SearchArgs ==
    {SearchKwargs(collections, bbox, datetime, cloud_cover, limit) :
        collections \in CollectionArgs, bbox \in BBoxArgs, datetime \in DatetimeArgs,
        cloud_cover \in CloudCoverArgs, limit \in LimitArgs}

\* what the catalog does with the search: Client.open raises, the search raises, or
\* one item comes back
RequestOutcomes ==
    {SearchOutcome("open_raises", <<>>), SearchOutcome("search_raises", <<>>),
     SearchOutcome("items", <<ItemOf(ItemIdPool[1])>>)}

\* the try block with c the outcome of getting the client: client.search gets the
\* arguments and the query; then the items are read; on an exception: log, raise
SearchRequest(c, call, outcome) ==
    IF c.raised
    THEN [call EXCEPT !.logged = TRUE, !.raised = TRUE, !.exc = c.exc]
    ELSE IF outcome.stage = "search_raises"
    THEN [call EXCEPT !.sent = TRUE,
                      !.kwargs = [call.args EXCEPT !.query = BuildQuery(call.args.query)],
                      !.logged = TRUE, !.raised = TRUE, !.exc = "APIError"]
    ELSE [call EXCEPT !.sent = TRUE,
                      !.kwargs = [call.args EXCEPT !.query = BuildQuery(call.args.query)],
                      !.items = outcome.items]

\* CustomStacClient.search_items(connection, collections, bbox, datetime, cloud_cover, limit)
CustomSearchItems(connection, args, outcome) ==
    /\ search_last' =
          SearchRequest(get_client_for(pystac_available, connection,
                                       outcome.stage = "open_raises"),
                        [NoSearch EXCEPT !.op = "CustomStacClient.search_items",
                                         !.target = connection, !.args = args],
                        outcome)
    /\ UNCHANGED <<storeVars, amVars, collVars, batch, searchVars, layerVars, depVars, manageVars, plugin>>

\* SearchHandler.search_items(provider, collections, bbox, datetime, cloud_cover, limit)
HandlerSearchItems(provider, args, outcome) ==
    /\ outcome.stage # "open_raises"
    /\ search_last' =
          SearchRequest(get_client(clients, provider),
                        [NoSearch EXCEPT !.op = "SearchHandler.search_items",
                                         !.target = JStr(provider),
                                         !.initialized = clients.initialized,
                                         !.args = args],
                        outcome)
    /\ UNCHANGED <<storeVars, amVars, collVars, batch, searchVars, layerVars, depVars, manageVars, plugin>>

RequestInit ==
    /\ StoreIdle /\ AmIdle /\ BatchIdle /\ SearchIdle /\ LayerIdle /\ RequestIdle /\ DepIdle /\ ManageIdle /\ PluginIdle
    /\ pystac_available \in BOOLEAN
    /\ clients = NoClients
    /\ coll_last = NoListing

RequestNext ==
    \/ \E connection \in ConnectionArgs : \E args \in SearchArgs :
          \E outcome \in RequestOutcomes : CustomSearchItems(connection, args, outcome)
    \/ \E provider \in Providers : \E args \in SearchArgs :
          \E outcome \in RequestOutcomes : HandlerSearchItems(provider, args, outcome)
    \/ \E outcome \in GetClientsOutcomes : InitializeClients(outcome)

SpecRequests == RequestInit /\ [][RequestNext]_vars

----------------------------------------------------------------------------
(* dependency_checker.py *)

\* the class dicts, in insertion order: import name -> install_name
REQUIRED_PACKAGES == JDict(<<Entry("open_geodata_api", "open-geodata-api")>>)
OPTIONAL_PACKAGES == JDict(<<Entry("geopandas", "geopandas"), Entry("rioxarray", "rioxarray")>>)

\* __import__(package_name): the module, an ImportError, or what a broken install
\* raises while the module is executed
ImportOutcomes == {"ok", "ImportError", "OSError"}
PackageIndex(p) == CHOOSE i \in 1..Len(Packages) : Packages[i] = p

\* check_package: True, False on ImportError; another exception passes through
check_package(env, package_name) ==
    IF env[PackageIndex(package_name)] = "ok" THEN Ok(TRUE)
    ELSE IF env[PackageIndex(package_name)] = "ImportError" THEN Ok(FALSE)
    ELSE Err(env[PackageIndex(package_name)])

\* results[...][package_import] = {'available': is_available, 'info': info}
Availability(package, available, info) ==
    Entry(package, [available |-> available, info |-> info])
CheckResults(met, required, optional) ==
    [raised |-> FALSE, exc |-> "", all_required_met |-> met, required |-> required,
     optional |-> optional]
CheckRaised(e) ==
    [raised |-> TRUE, exc |-> e, all_required_met |-> FALSE, required |-> <<>>,
     optional |-> <<>>]

\* the loop over OPTIONAL_PACKAGES.items(), from entry i on
RECURSIVE CheckOptional(_, _, _)
CheckOptional(env, i, results) ==
    IF i > Len(OPTIONAL_PACKAGES.items) THEN results
    ELSE IF check_package(env, OPTIONAL_PACKAGES.items[i].k).raised
    THEN CheckRaised(check_package(env, OPTIONAL_PACKAGES.items[i].k).exc)
    ELSE CheckOptional(env, i + 1,
             [results EXCEPT !.optional =
                 Append(@, Availability(OPTIONAL_PACKAGES.items[i].k,
                                        check_package(env, OPTIONAL_PACKAGES.items[i].k).ret,
                                        OPTIONAL_PACKAGES.items[i].v))])

\* (variant) a missing optional package clears all_required_met too
RECURSIVE CheckOptional_Required(_, _, _)
CheckOptional_Required(env, i, results) ==
    IF i > Len(OPTIONAL_PACKAGES.items) THEN results
    ELSE IF check_package(env, OPTIONAL_PACKAGES.items[i].k).raised
    THEN CheckRaised(check_package(env, OPTIONAL_PACKAGES.items[i].k).exc)
    ELSE CheckOptional_Required(env, i + 1,
             [results EXCEPT !.optional =
                 Append(@, Availability(OPTIONAL_PACKAGES.items[i].k,
                                        check_package(env, OPTIONAL_PACKAGES.items[i].k).ret,
                                        OPTIONAL_PACKAGES.items[i].v)),
                             !.all_required_met =
                                 @ /\ check_package(env, OPTIONAL_PACKAGES.items[i].k).ret])

\* the loop over REQUIRED_PACKAGES.items(), from entry i on
RECURSIVE CheckRequired(_, _, _)
CheckRequired(env, i, results) ==
    IF i > Len(REQUIRED_PACKAGES.items) THEN results
    ELSE IF check_package(env, REQUIRED_PACKAGES.items[i].k).raised
    THEN CheckRaised(check_package(env, REQUIRED_PACKAGES.items[i].k).exc)
    ELSE CheckRequired(env, i + 1,
             [results EXCEPT !.required =
                 Append(@, Availability(REQUIRED_PACKAGES.items[i].k,
                                        check_package(env, REQUIRED_PACKAGES.items[i].k).ret,
                                        REQUIRED_PACKAGES.items[i].v)),
                             !.all_required_met =
                                 IF check_package(env, REQUIRED_PACKAGES.items[i].k).ret
                                 THEN @ ELSE FALSE])

\* (variant) the optional loop as CheckOptional_Required
check_all_dependencies_OptionalCounts(env) ==
    IF CheckRequired(env, 1, CheckResults(TRUE, <<>>, <<>>)).raised
    THEN CheckRequired(env, 1, CheckResults(TRUE, <<>>, <<>>))
    ELSE CheckOptional_Required(env, 1, CheckRequired(env, 1, CheckResults(TRUE, <<>>, <<>>)))

\* DependencyChecker.check_all_dependencies
check_all_dependencies(env) ==
    IF CheckRequired(env, 1, CheckResults(TRUE, <<>>, <<>>)).raised
    THEN CheckRequired(env, 1, CheckResults(TRUE, <<>>, <<>>))
    ELSE CheckOptional(env, 1, CheckRequired(env, 1, CheckResults(TRUE, <<>>, <<>>)))

\* DependencyChecker.get_install_command
InstallArgs == {"open_geodata_api", "geopandas", "rioxarray", "numpy"}
get_install_command(package_import_name) ==
    "python -m pip install " \o
        (IF HasKey(REQUIRED_PACKAGES, package_import_name)
         THEN DictGet(REQUIRED_PACKAGES, package_import_name, "")
         ELSE IF HasKey(OPTIONAL_PACKAGES, package_import_name)
         THEN DictGet(OPTIONAL_PACKAGES, package_import_name, "")
         ELSE package_import_name)

CheckAllDependencies ==
    /\ \E o \in {check_all_dependencies(importable)} :
          dep_last' = [NoCheck EXCEPT !.op = "check_all_dependencies",
                                      !.raised = o.raised, !.exc = o.exc,
                                      !.all_required_met = o.all_required_met,
                                      !.required = o.required, !.optional = o.optional]
    /\ UNCHANGED <<importable, storeVars, amVars, collVars, batch, searchVars, layerVars, search_last, manageVars, plugin>>

CheckPackage(package_name) ==
    /\ \E o \in {check_package(importable, package_name)} :
          dep_last' = [NoCheck EXCEPT !.op = "check_package", !.package = package_name,
                                      !.raised = o.raised, !.exc = o.exc,
                                      !.ret = IF o.raised THEN ""
                                              ELSE IF o.ret THEN "True" ELSE "False"]
    /\ UNCHANGED <<importable, storeVars, amVars, collVars, batch, searchVars, layerVars, search_last, manageVars, plugin>>

GetInstallCommand(package_import_name) ==
    /\ dep_last' = [NoCheck EXCEPT !.op = "get_install_command",
                                   !.package = package_import_name,
                                   !.ret = get_install_command(package_import_name)]
    /\ UNCHANGED <<importable, storeVars, amVars, collVars, batch, searchVars, layerVars, search_last, manageVars, plugin>>

DepInit ==
    /\ StoreIdle /\ AmIdle /\ CollIdle /\ BatchIdle /\ SearchIdle /\ LayerIdle /\ RequestIdle
    /\ ManageIdle /\ PluginIdle
    /\ importable \in [1..Len(Packages) -> ImportOutcomes]
    /\ dep_last = NoCheck

DepNext ==
    \/ CheckAllDependencies
    \/ \E i \in 1..Len(Packages) : CheckPackage(Packages[i])
    \/ \E package_import_name \in InstallArgs : GetInstallCommand(package_import_name)

SpecDependencies == DepInit /\ [][DepNext]_vars

----------------------------------------------------------------------------
(* geodata_browser.py: run, check_dependencies and the installation dialog *)

\* what check_dependencies gives run(): True or False, a message box shown on the
\* way, or the exception of the import
Checked(ret, message) == [raised |-> FALSE, ret |-> ret, message |-> message]
CheckFailed == [raised |-> TRUE, ret |-> FALSE, message |-> NoMessage]

\* how `python -m pip install open-geodata-api` ends
PipOutcomes == {"returncode 0", "returncode 1", "TimeoutExpired", "Exception"}

\* (variant) a successful installation lets run() go on
install_dependencies_from_console_LoadNow(pip) ==
    CASE pip = "returncode 0" ->
            Checked(TRUE, Message("information", "Installation Successful", 0, 0))
      [] pip = "returncode 1" -> Checked(FALSE, Message("critical", "Installation Failed", 0, 0))
      [] pip = "TimeoutExpired" ->
            Checked(FALSE, Message("critical", "Installation Timeout", 0, 0))
      [] OTHER -> Checked(FALSE, Message("critical", "Installation Error", 0, 0))

\* install_dependencies_from_console: False whatever pip did (a restart is needed)
install_dependencies_from_console(pip) ==
    CASE pip = "returncode 0" ->
            Checked(FALSE, Message("information", "Installation Successful", 0, 0))
      [] pip = "returncode 1" -> Checked(FALSE, Message("critical", "Installation Failed", 0, 0))
      [] pip = "TimeoutExpired" ->
            Checked(FALSE, Message("critical", "Installation Timeout", 0, 0))
      [] OTHER -> Checked(FALSE, Message("critical", "Installation Error", 0, 0))

\* show_dependency_dialog: the button clicked in the 'Missing Dependencies' box
Clicks == {"Install Now", "Cancel", "Copy Install Command"}
show_dependency_dialog(clicked, pip) ==
    IF clicked = "Install Now" THEN install_dependencies_from_console(pip)
    ELSE IF clicked = "Copy Install Command"
    THEN Checked(FALSE, Message("information", "Command Copied", 0, 0))
    ELSE Checked(FALSE, NoMessage)

\* check_dependencies: True when the import works, the dialog on ImportError
check_dependencies(package, clicked, pip) ==
    IF package = "ok" THEN Checked(TRUE, NoMessage)
    ELSE IF package = "ImportError" THEN show_dependency_dialog(clicked, pip)
    ELSE CheckFailed

\* a click on the plugin's action: run(). After a pip that succeeded the package may
\* (now) or may not be importable before the restart
RunPlugin(clicked, pip, now, open_raises, listing) ==
    \E deps \in {check_dependencies(plugin.package, clicked, pip)} :
    /\ plugin' = [package |-> IF plugin.package = "ImportError" /\ clicked = "Install Now"
                                 /\ pip = "returncode 0" /\ now
                              THEN "ok" ELSE plugin.package,
                  tick |-> ~plugin.tick,
                  importable |-> (plugin.package = "ok"),
                  clicked |-> IF plugin.package = "ImportError" THEN clicked ELSE "",
                  pip |-> IF plugin.package = "ImportError" /\ clicked = "Install Now"
                          THEN pip ELSE "",
                  message |-> deps.message, raised |-> deps.raised]
    /\ IF deps.raised
       THEN /\ ~conn_dlg.open
            /\ UNCHANGED <<storeVars, amVars, collVars, batch, searchVars, layerVars, search_last, depVars, manageVars>>
       ELSE RunDialog(deps.ret, open_raises, listing)

RunInit ==
    /\ StoreIdle /\ AmIdle /\ CollIdle /\ BatchIdle /\ SearchIdle /\ LayerIdle
    /\ RequestIdle /\ DepIdle /\ ManageIdle
    /\ plugin \in {[NoRun EXCEPT !.package = p] : p \in ImportOutcomes}

RunNext ==
    \/ \E clicked \in Clicks : \E pip \in PipOutcomes : \E now, open_raises \in BOOLEAN :
       \E listing \in DialogListings : RunPlugin(clicked, pip, now, open_raises, listing)
    \/ \E bbox \in BBoxForms : EditBBox(bbox)
    \/ \E extent \in CanvasExtents : UseCanvasExtent(extent)
    \/ ClearBBox
    \/ ToggleMapPreview
    \/ CloseEvent

SpecRun == RunInit /\ [][RunNext]_vars

----------------------------------------------------------------------------
(* Claims about the connection store *)

\* the profile names the store lists, or <<>> when listing them raises
NamesListed(st) ==
    LET o == get_connection_names(st) IN
    IF o.raised THEN {} ELSE {o.ret.items[i].v.s : i \in 1..Len(o.ret.items)}

\* the record the claim expects for a config: its four fields, '' / False when missing
FieldOr(config, key, default) ==
    IF \E i \in 1..Len(config.items) : config.items[i].k = key
    THEN (CHOOSE e \in {config.items[i] : i \in 1..Len(config.items)} : e.k = key).v
    ELSE default
ExpectedRecord(config) ==
    JDict(<< Entry("url",       FieldOr(config, "url", JStr(""))),
             Entry("username",  FieldOr(config, "username", JStr(""))),
             Entry("password",  FieldOr(config, "password", JStr(""))),
             Entry("auto_sign", FieldOr(config, "auto_sign", JBool(FALSE))) >>)

\* C1: after save_connection(n, c) returned, get_connection(n) returns the record
\* {url, username, password, auto_sign} of c (missing keys as '', '', '', False)
\* and n is listed; after a delete_connection(n) that follows it, get_connection(n)
\* returns None and n is not listed.
C1_SaveDeleteRoundTrip ==
    /\ (last.op = "save_connection" /\ ~last.raised) =>
          /\ get_connection(settings, last.name) = Return(settings, ExpectedRecord(last.config))
          /\ ~get_connection_names(settings).raised
          /\ last.name \in NamesListed(settings)
    /\ (last.op = "delete_connection" /\ last.afterSave /\ ~last.raised) =>
          /\ get_connection(settings, last.name) = Return(settings, JNull)
          /\ ~get_connection_names(settings).raised
          /\ last.name \notin NamesListed(settings)

\* C1 witness: a delete_connection(n) right after a save_connection(n, c) with keys missing
C1_Witness ==
    /\ last.op = "delete_connection" /\ last.afterSave /\ ~last.raised
    /\ last.name \in UserNames
    /\ NamesListed(settings) # {}

\* the stored text is not parseable JSON
Unparseable(st) == st.present /\ st.isText /\ st.text # <<>> /\ ~json_loads(st.text).ok

\* C2: over a text that is not parseable JSON, get_all_connections returns an empty
\* mapping, and constructing a ConnectionManager returns without raising.
C2_MalformedDegrades ==
    [][Unparseable(settings) =>
          /\ get_all_connections(settings) = JDict(<<>>)
          /\ (last'.op = "__init__" => ~last'.raised /\ manager')]_vars

\* C2 witness: a construction that logged the parse warning and returned
C2_Witness == last.op = "__init__" /\ last.warned /\ ~last.raised /\ manager

\* C8: from an empty store, whatever is saved and deleted, the stored value is the text
\* json.dumps writes for a mapping of names to records, and every record has exactly
\* the keys url, username, password, auto_sign.
C8_FlatRecordStore ==
    settings.present =>
        /\ settings.isText
        /\ json_loads(settings.text).ok
        /\ LET m == json_loads(settings.text).v IN
           /\ m.kind = "dict"
           /\ json_dumps(m) = settings.text
           /\ \A i \in 1..Len(m.items) :
                /\ m.items[i].v.kind = "dict"
                /\ Keys(m.items[i].v) = <<"url", "username", "password", "auto_sign">>
                /\ \A j \in 1..3 : m.items[i].v.items[j].v.kind = "str"
                /\ m.items[i].v.items[4].v.kind = "bool"

\* C8 witness: a config that carries a 'name' key has been saved
C8_Witness ==
    /\ last.op = "save_connection" /\ ~last.raised
    /\ HasKey(last.config, "name")
    /\ last.name \in NamesListed(settings)

\* C9 as claimed: once __init__ has returned, both default connections are in the
\* store with their default URL and auto_sign flag.
C9_DefaultsAfterInit ==
    (last.op = "__init__" /\ ~last.raised) =>
        \A i \in 1..Len(DEFAULT_CONNECTIONS.items) :
            LET d == DEFAULT_CONNECTIONS.items[i]
                got == get_connection(settings, d.k) IN
            /\ ~got.raised
            /\ got.ret.kind = "dict"
            /\ DictGet(got.ret, "url", JNull) = DictGet(d.v, "url", JNull)
            /\ DictGet(got.ret, "auto_sign", JNull) = DictGet(d.v, "auto_sign", JNull)

----------------------------------------------------------------------------
(* Claims about AssetManager.download_assets *)

Range(q) == {q[i] : i \in 1..Len(q)}

\* the keys at the positions of asset_keys whose outcome is one of wanted, in order
RECURSIVE KeysWhere(_, _, _, _)
KeysWhere(asset_keys, outcomes, wanted, i) ==
    IF i > Len(asset_keys) THEN <<>>
    ELSE (IF outcomes[i] \in wanted THEN <<asset_keys[i]>> ELSE <<>>)
         \o KeysWhere(asset_keys, outcomes, wanted, i + 1)
IsRaised(x) == x \in {"url_raises", "download_raises"}

\* C7 (amended): every position of asset_keys puts its key in exactly one of the two
\* lists: downloaded holds, in input order, the keys of the positions where nothing
\* raised, failed those of the positions where getting the URL or downloading raised;
\* the lengths add up to len(asset_keys), so a failure never stops the later keys.
C7_TallyByPosition ==
    am_call.made =>
        /\ am_result.downloaded = KeysWhere(am_call.keys, am_call.outcomes, {"ok"}, 1)
        /\ am_result.failed = KeysWhere(am_call.keys, am_call.outcomes, {"url_raises", "download_raises"}, 1)
        /\ Len(am_result.downloaded) + Len(am_result.failed) = Len(am_call.keys)

\* C7 witness: a call in which an early key failed and a later key was downloaded
C7_Witness ==
    /\ am_call.made
    /\ \E i, j \in 1..Len(am_call.keys) :
          i < j /\ IsRaised(am_call.outcomes[i]) /\ am_call.outcomes[j] = "ok"
    /\ am_result.failed # <<>> /\ am_result.downloaded # <<>>

\* C7 as claimed: on top of the tally, every key of asset_keys is in exactly one of
\* the two lists, and it is in failed exactly when it raised.
C7_EveryKeyInOneList ==
    am_call.made =>
        /\ Len(am_result.downloaded) + Len(am_result.failed) = Len(am_call.keys)
        /\ \A key \in Range(am_call.keys) :
              /\ (key \in Range(am_result.downloaded)) # (key \in Range(am_result.failed))
              /\ (key \in Range(am_result.failed)) <=>
                    \E i \in 1..Len(am_call.keys) :
                        am_call.keys[i] = key /\ IsRaised(am_call.outcomes[i])

----------------------------------------------------------------------------
(* Claims about listing collections *)

\* C10: list_collections and get_collections never raise; they return [] whenever
\* opening the client or listing raised (pystac-client missing, no usable url, clients
\* not initialized, unknown provider, the catalog failing), and otherwise the ids in
\* the order the client yields them.
C10_ListingNeverRaises ==
    /\ coll_last.op = "list_collections" =>
          /\ ~coll_last.raised
          /\ LET failed == \/ ~coll_last.available
                           \/ coll_last.connection.kind # "dict"
                           \/ ~HasKey(coll_last.connection, "url")
                           \/ coll_last.open_raises
                           \/ coll_last.listing.raises IN
             coll_last.ret = IF failed THEN <<>> ELSE coll_last.listing.ids
    /\ coll_last.op = "get_collections" =>
          /\ ~coll_last.raised
          /\ LET failed == \/ ~coll_last.initialized
                           \/ coll_last.provider \notin {"planetary_computer", "earth_search"}
                           \/ coll_last.listing.raises IN
             coll_last.ret = IF failed THEN <<>> ELSE coll_last.listing.ids

\* C10 witness: get_collections before any initialize_clients, answered with []
C10_Witness ==
    /\ coll_last.op = "get_collections" /\ ~coll_last.initialized
    /\ coll_last.listing.ids # <<>> /\ coll_last.ret = <<>>

\* C11: get_client raises RuntimeError, whatever the provider, as long as no
\* initialize_clients call has run to its end; afterwards it returns the Planetary
\* Computer client for 'planetary_computer', the EarthSearch client for
\* 'earth_search', and raises ValueError for any other name.
C11_GetClient ==
    coll_last.op = "get_client" =>
        IF ~coll_last.succeeded
        THEN coll_last.raised /\ coll_last.exc = "RuntimeError"
        ELSE CASE coll_last.provider = "planetary_computer" ->
                      ~coll_last.raised /\ coll_last.client = "pc_client"
               [] coll_last.provider = "earth_search" ->
                      ~coll_last.raised /\ coll_last.client = "es_client"
               [] OTHER -> coll_last.raised /\ coll_last.exc = "ValueError"

\* C11 witness: the EarthSearch client handed out after a call that succeeded
C11_Witness ==
    /\ coll_last.op = "get_client" /\ coll_last.succeeded
    /\ coll_last.provider = "earth_search" /\ coll_last.client = "es_client"

----------------------------------------------------------------------------
(* Claims about the asset loops of the dialog *)

\* C6: the Cancel flag is looked at only at the start of an iteration: when it is seen
\* set at position c, the assets at positions c and later are neither loaded nor
\* downloaded, and the assets before c that completed keep their effect; a click
\* handled during iteration i is seen at i + 1, if there is one.
C6_CancelBetweenIterations ==
    batch.looped =>
        /\ batch.seenAt > 0 =>
              /\ batch.processed = batch.seenAt - 1
              /\ batch.effects =
                    KeysWhere(SubSeq(batch.selected, 1, batch.seenAt - 1),
                              batch.outcomes, {"ok"}, 1)
              /\ \A j \in batch.seenAt..Len(batch.selected) :
                    batch.selected[j] \notin Range(batch.effects)
        /\ batch.seenAt = (IF batch.cancel_during \in 1..(Len(batch.selected) - 1)
                           THEN batch.cancel_during + 1 ELSE 0)
        /\ batch.seenAt = 0 =>
              batch.effects = KeysWhere(batch.selected, batch.outcomes, {"ok"}, 1)

\* C6 witness: Cancel seen at the second of three assets, the first one kept,
\* though the later ones would have loaded
C6_Witness ==
    /\ batch.looped /\ batch.seenAt = 2 /\ Len(batch.selected) = 3
    /\ batch.effects = <<batch.selected[1]>>
    /\ \A j \in 1..3 : batch.outcomes[j] = "ok"

----------------------------------------------------------------------------
(* Claims about the search form and its results *)

\* the texts of the bbox fields that write a number, with the number, and those
\* that write none
Number(sign, mant, exp) == [ok |-> TRUE, special |-> "", sign |-> sign, mant |-> mant, exp |-> exp]
NumberWritten(t) ==
    CASE t = <<"-", "1", ".", "5">>                               -> Number(-1, 15, -1)
      [] t = <<" ", "2", "e", "1", " ">>                          -> Number(1, 2, 1)
      [] t = <<"-", "1", ".", "5", "0", "0", "0", "0", "0">>      -> Number(-1, 15, -1)
      [] t = <<"0", ".", "2", "5", "0", "0", "0", "0">>           -> Number(1, 25, -2)
      [] t = <<"2", ".", "0", "0", "0", "0", "0", "0">>           -> Number(1, 2, 0)
      [] t = <<"4", "1", ".", "0", "0", "0", "0", "0", "0">>      -> Number(1, 41, 0)
      [] OTHER                                                    -> ValueError
NoNumber(t) == t \in {<<>>, <<"1", "a">>}
WritesNumber(t) == NumberWritten(t).ok

\* a step of perform_search that changed something
SearchStep == dlg'.op = "perform_search" /\ <<dlg, stac_call>>' # <<dlg, stac_call>>

\* C3: perform_search calls search_items only when each of the four bbox texts writes
\* a number, and then passes these four numbers and a cloud cover between 0 and 100;
\* when a text writes no number the warning is shown, search_items is not called, and
\* current_items and the results table stay as they were.
C3_ValidatedBeforeSearch ==
    [][SearchStep =>
        /\ \A f \in BBoxFields : WritesNumber(dlg.bbox[f]) \/ NoNumber(dlg.bbox[f])
        /\ stac_call'.called =>
              /\ \A f \in BBoxFields : WritesNumber(dlg.bbox[f])
              /\ stac_call'.bbox = <<NumberWritten(dlg.bbox.west), NumberWritten(dlg.bbox.south),
                                     NumberWritten(dlg.bbox.east), NumberWritten(dlg.bbox.north)>>
              /\ stac_call'.cloud_cover \in 0..100
        /\ (\E f \in BBoxFields : NoNumber(dlg.bbox[f])) =>
              /\ dlg'.message =
                    Message("warning", "Please provide valid bounding box coordinates", 0, 0)
              /\ ~stac_call'.called
              /\ dlg'.current_items = dlg.current_items
              /\ dlg'.table = dlg.table
    ]_vars

\* C3 witness: a search over a form whose south field is no number, after a search
\* that found items: the warning is up, nothing was asked, the items are still there
C3_Witness ==
    /\ dlg.op = "perform_search"
    /\ dlg.bbox.south = <<"1", "a">> /\ WritesNumber(dlg.bbox.west)
    /\ dlg.message.kind = "warning"
    /\ ~stac_call.called
    /\ dlg.current_items # <<>> /\ dlg.table # <<>>

\* C4: after a search that found items current_items holds the items of that search
\* and no others, and a dialog that has been closed holds no items and no rows.
C4_ResultsDiscarded ==
    /\ (dlg.op = "perform_search" /\ stac_call.stage = "items") =>
          dlg.current_items = stac_call.items
    /\ (dlg.exists /\ ~dlg.visible) =>
          dlg.current_items = <<>> /\ dlg.table = <<>>

\* C5: when search_items raises (opening the client or searching failed) it logs and
\* raises, and perform_search shows the error, sets 'Search failed', enables the
\* button, lets nothing out, and leaves current_items and the table as they were.
C5_SearchFailureHandled ==
    [][(SearchStep /\ stac_call'.called /\ stac_call'.stage \in {"open", "search"}) =>
        /\ stac_call'.logged /\ stac_call'.raised
        /\ dlg'.message = Message("error", "Search failed", 0, 0)
        /\ dlg'.status = Status("Search failed", 0)
        /\ dlg'.searchEnabled
        /\ ~dlg'.raised
        /\ dlg'.current_items = dlg.current_items
        /\ dlg'.table = dlg.table
    ]_vars

\* C5 witness: a search that raised after an earlier one had found items
C5_Witness ==
    /\ dlg.op = "perform_search"
    /\ stac_call.called /\ stac_call.raised /\ stac_call.stage = "search"
    /\ dlg.status.text = "Search failed" /\ dlg.searchEnabled
    /\ Len(dlg.current_items) = 2 /\ Len(dlg.table) = 2

----------------------------------------------------------------------------
(* Claims about loading layers *)

\* C12: load_cog_layer adds a layer to the project only when the item has the asset
\* key and the raster layer made from '/vsicurl/' + href is valid, and then it
\* returns that very layer; when the key is absent or the layer is invalid it raises
\* ValueError and the project keeps the layers it had.
C12_LoadCogLayer ==
    [][LET c == load_last'
           present == c.item.has_assets /\ \E i \in 1..Len(c.item.assets.items) :
                          c.item.assets.items[i].k = c.asset_key
       IN  IF present /\ c.valid
           THEN /\ ~c.raised
                /\ \E i \in 1..Len(c.item.assets.items) :
                      /\ c.item.assets.items[i].k = c.asset_key
                      /\ c.ret.source = "/vsicurl/" \o c.item.assets.items[i].v
                /\ project' = Append(project, c.ret)
           ELSE /\ c.raised /\ c.exc = "ValueError"
                /\ project' = project
    ]_vars

\* C12 witness: an invalid layer refused while the project already holds a layer
C12_Witness ==
    /\ load_last.op = "load_cog_layer" /\ load_last.raised
    /\ load_last.item.has_assets /\ load_last.asset_key = "visual" /\ ~load_last.valid
    /\ Len(project) = 1 /\ project[1].source = "/vsicurl/https://example.org/S2A/B04.tif"

----------------------------------------------------------------------------
(* Claims about the search request *)

\* C13: whenever CustomStacClient.search_items or SearchHandler.search_items calls
\* client.search, the query is {'eo:cloud_cover': {'lt': cloud_cover}} for every
\* cloud_cover that is not None (0 included) and None when cloud_cover is None;
\* collections, bbox, datetime and limit are the ones the caller gave.
C13_QueryIffCloudCover ==
    search_last.sent =>
        /\ search_last.kwargs.query =
              IF search_last.args.query.kind = "null" THEN JNull
              ELSE JDict(<<Entry("eo:cloud_cover",
                                 JDict(<<Entry("lt", search_last.args.query)>>))>>)
        /\ search_last.kwargs.collections = search_last.args.collections
        /\ search_last.kwargs.bbox = search_last.args.bbox
        /\ search_last.kwargs.datetime = search_last.args.datetime
        /\ search_last.kwargs.limit = search_last.args.limit

\* C13 witness: the handler of the API clients searches with a cloud cover of 0
C13_Witness ==
    /\ search_last.op = "SearchHandler.search_items" /\ search_last.sent
    /\ search_last.args.query = JNum(0)
    /\ search_last.kwargs.query.kind = "dict"
    /\ search_last.kwargs.bbox.kind = "list"

----------------------------------------------------------------------------
(* Claims about the dependency check *)

\* C14: the result of check_all_dependencies has all_required_met = True exactly
\* when every package of REQUIRED_PACKAGES can be imported, whatever the optional
\* packages do, and it has one entry per required and per optional package, each
\* with the availability of its own package.
C14_AllRequiredMet ==
    (dep_last.op = "check_all_dependencies" /\ ~dep_last.raised) =>
        /\ dep_last.all_required_met = (importable[1] = "ok")
        /\ Len(dep_last.required) = 1 /\ Len(dep_last.optional) = 2
        /\ dep_last.required[1].k = "open_geodata_api"
        /\ dep_last.required[1].v.available = (importable[1] = "ok")
        /\ dep_last.optional[1].k = "geopandas"
        /\ dep_last.optional[1].v.available = (importable[2] = "ok")
        /\ dep_last.optional[2].k = "rioxarray"
        /\ dep_last.optional[2].v.available = (importable[3] = "ok")

\* C14 witness: the required package is there and both optional packages are missing
C14_Witness ==
    /\ dep_last.op = "check_all_dependencies" /\ ~dep_last.raised
    /\ dep_last.all_required_met
    /\ importable[2] = "ImportError" /\ importable[3] = "ImportError"

----------------------------------------------------------------------------
(* Claims about the provider dropdown and the profiles behind it *)

\* C15: when perform_search has called search_items, the name shown in the provider
\* dropdown is a key of the stored mapping, the connection handed over is the record
\* stored under that name and at least one collection was selected; when it has not,
\* a warning was shown.
C15_SearchByStoredProfile ==
    dlg.op = "perform_search" =>
        IF stac_call.called
        THEN /\ HasKey(get_all_connections(settings), dlg.provider)
             /\ stac_call.connection = DictGet(get_all_connections(settings), dlg.provider, JNull)
             /\ stac_call.collections # <<>>
        ELSE dlg.message.kind = "warning"

\* C15 witness: a search with a valid bounding box while the dropdown still shows a
\* profile that was removed in the connection dialog
C15_Witness ==
    /\ dlg.op = "perform_search" /\ ~stac_call.called
    /\ dlg.provider = PC_NAME /\ ~HasKey(get_all_connections(settings), PC_NAME)
    /\ dlg.message.text = "Please select a valid connection"

----------------------------------------------------------------------------
(* Claims about GeodataBrowser.run *)

\* C16: a run() call made while open_geodata_api cannot be imported neither creates
\* nor shows the dialog, whatever the installation did; and once a dialog exists a
\* run() call keeps that dialog with all it holds, and only shows it.
C16_DialogCreatedOnce ==
    [][plugin'.tick # plugin.tick =>
          /\ plugin.package # "ok" => dlg' = dlg
          /\ dlg.exists =>
                dlg' = [dlg EXCEPT !.visible = dlg'.visible, !.message = dlg'.message,
                                   !.op = dlg'.op, !.raised = dlg'.raised]
    ]_vars

\* C16 witness: 'Install Now' succeeded, the package can be imported, and there is
\* still no dialog
C16_Witness ==
    /\ plugin.clicked = "Install Now" /\ plugin.pip = "returncode 0"
    /\ plugin.message.text = "Installation Successful"
    /\ plugin.package = "ok" /\ ~dlg.exists /\ ~dlg.visible

----------------------------------------------------------------------------
(* Claims about the connection dialog *)

\* the record the store is to hold for the form the add dialog was accepted with
FormRecord(form) ==
    ProfileRecord(JStr(Join(strip(form.url))), JStr(Join(strip(form.username))),
                  JStr(Join(form.password)), JBool(form.auto_sign))

C18_NoEmptyNameOrUrl ==
    /\ conn_dlg.accepted /\ conn_dlg.op \in {"add_connection", "edit_connection"} =>
          /\ strip(conn_dlg.form.name) # <<>>
          /\ strip(conn_dlg.form.url) # <<>>
    /\ \A i \in 1..Len(get_all_connections(settings).items) :
          /\ get_all_connections(settings).items[i].k # ""
          /\ DictGet(get_all_connections(settings).items[i].v, "url", JStr("")) # JStr("")

\* C18 witness: an edit with a URL of blanks only was refused
C18_Witness ==
    /\ conn_dlg.op = "edit_connection" /\ ~conn_dlg.accepted
    /\ conn_dlg.form.url = <<" ", " ">>
    /\ conn_dlg.message.text = "Please enter an API URL."

\* C19: after an accepted edit of profile n with new name m, n is gone when m
\* differs from n, m holds the edited record, every profile other than n and m
\* has the record it had, and the store has as many profiles as before.
C19_EditFrame ==
    [][(conn_dlg'.op = "edit_connection" /\ conn_dlg'.accepted) =>
          /\ conn_dlg'.new_name # conn_dlg'.name =>
                ~HasKey(get_all_connections(settings'), conn_dlg'.name)
          /\ DictGet(get_all_connections(settings'), conn_dlg'.new_name, JNull) =
                FormRecord(conn_dlg'.form)
          /\ \A i \in 1..Len(get_all_connections(settings).items) :
                get_all_connections(settings).items[i].k
                        \notin {conn_dlg'.name, conn_dlg'.new_name} =>
                    DictGet(get_all_connections(settings'),
                            get_all_connections(settings).items[i].k, JNull) =
                        get_all_connections(settings).items[i].v
          /\ Len(get_all_connections(settings').items) =
                Len(get_all_connections(settings).items)
    ]_vars

\* C20: once the connection dialog opened by manage_connections is closed, the
\* provider dropdown lists the names of the store.
C20_ComboFollowsStore ==
    (dlg.exists /\ conn_dlg.op = "closed") => providerCombo = NameList(settings)

\* C22: whatever the settings key holds, get_all_connections gives a name-to-record
\* mapping, and __init__, save_connection and delete_connection return.
C22_MappingAndNoRaise ==
    /\ get_all_connections(settings).kind = "dict"
    /\ last.op \in {"__init__", "save_connection", "delete_connection"} => ~last.raised

\* C21: pressing Test Connection in the add/edit dialog leaves the profiles of the
\* store as they were, an empty store included.
C21_TestLeavesStore ==
    [][conn_dlg'.op = "test_connection" =>
          get_all_connections(settings') = get_all_connections(settings)]_vars

\* C23: the tally a batch handler shows is k/N with N the number of selected assets
\* and k the number of assets whose load or download returned, 0 <= k <= N; when
\* Cancel was not seen every selected asset is tried, whatever failed before it; and
\* nothing is tried without a selected item, without a selected asset, or (for a
\* download) without an existing download directory.
C23_TallyAndGuards ==
    /\ batch.message.kind = "info" =>
          /\ batch.looped
          /\ batch.message.n = Len(batch.selected)
          /\ batch.message.k =
                Len(KeysWhere(SubSeq(batch.selected, 1, batch.processed),
                              batch.outcomes, {"ok"}, 1))
          /\ batch.message.k = Len(batch.effects)
          /\ batch.message.k \in 0..batch.message.n
    /\ (batch.looped /\ batch.seenAt = 0) =>
          /\ batch.message.kind = "info"
          /\ batch.effects = KeysWhere(batch.selected, batch.outcomes, {"ok"}, 1)
    /\ (/\ batch.handler # "none"
        /\ \/ ~batch.item_selected
           \/ batch.selected = <<>>
           \/ batch.handler # "load_selected_assets" /\ ~batch.path_exists) =>
          /\ ~batch.looped /\ batch.processed = 0 /\ batch.effects = <<>>
          /\ batch.message.kind = "warning"

\* C23 witness: a download of three assets whose first one failed: the other two were
\* written and the tally says 2/3
C23_Witness ==
    /\ batch.handler = "download_assets" /\ batch.looped /\ batch.seenAt = 0
    /\ Len(batch.selected) = 3
    /\ batch.outcomes = <<"raises", "ok", "ok">>
    /\ batch.effects = <<batch.selected[2], batch.selected[3]>>
    /\ batch.message = Message("info", "Successfully downloaded", 2, 3)

\* C24: the search button is disabled only inside perform_search: whichever way the
\* handler returned (a warning, a search that found items, an exception in the search
\* or in display_results) the button is enabled, and no other handler disables it.
C24_SearchButtonEnabled ==
    dlg.searchEnabled /\ (dlg.op = "perform_search" => ~dlg.raised)

\* C24 witness: search_items returned items, display_results raised on one of them,
\* 'Search failed' was shown, and the button is enabled
C24_Witness ==
    /\ dlg.op = "perform_search" /\ stac_call.called /\ stac_call.stage = "items"
    /\ dlg.message = Message("error", "Search failed", 0, 0)
    /\ dlg.current_items # <<>>
    /\ dlg.searchEnabled

====
